---------------------------- MODULE Spec2Model ----------------------------
(***************************************************************************)
(* A model of uind, a local DNS relay (src/src/main.rs, message.rs,        *)
(* codec.rs): the UDP forwarding engine with its correlation table and     *)
(* sender queue, the per-connection TCP forwarder, and the pure functions  *)
(* from_answer and filter_questions.                                       *)
(***************************************************************************)
EXTENDS Integers, Sequences, FiniteSets, TLC

VARIABLES
    clients,    \* main.rs:47  TtlCache<u16,(SocketAddr, Vec<RR>)>: a set of entries
    queue,      \* main.rs:45  the mpsc channel tx -> rx: Seq of [message, addr]
    udp,        \* "running" while udp_sender and udp_dispatcher are both alive
    last,       \* history: what udp_dispatcher did with the last datagram
    tcp,        \* per client connection: the forwarder's position and locals
    tcpOut,     \* per client connection: the messages written on the sink
    upstream,   \* the upstream TCP connections opened so far, with what was written
    call,       \* one application of a pure function: [fn, args, ret]
    codec,      \* codec.rs:19-23  one DnsMessageCodec: [tcp, len, offset]
    src,        \* the BytesMut the codec encodes into and decodes from
    items,      \* the messages still to be handed to encode
    wire,       \* the byte segments still to arrive in src
    readable,   \* bytes were added to src since decode last answered None or Err
    hist        \* history: every encode and decode call with what it returned

codecVars == <<codec, src, items, wire, readable, hist>>
vars == <<clients, queue, udp, last, tcp, tcpOut, upstream, call, codecVars>>
udpVars == <<clients, queue, udp, last>>
tcpVars == <<tcp, tcpOut, upstream>>

-----------------------------------------------------------------------------
(* Bounds of the model.                                                    *)

\* Most datagrams waiting in the sender queue: ingress waits while it is full.
MaxQueue == 1
\* The same where the order of the queue is looked at.
MaxWaiting == 3
\* Most requests read from one client TCP connection.
MaxTcpRequests == 2
\* Longest argument list of a pure-function application.
MaxLen == 3

\* main.rs:48  let ttl = Duration::from_secs(2), in clock ticks of one second.
Ttl == 2

-----------------------------------------------------------------------------
(* message.rs: the message model.  A domain name is a Vec of labels, a     *)
(* label a sequence of bytes.                                              *)

TypeA == 1
TypeAAAA == 28
ClassInternet == 1

NameLocal == << <<108>> >>          \* "l": has two entries in the hosts file
NameBlocked == << <<98>>, <<116>> >>  \* "b.t": mapped to 0.0.0.0
NameRemote == << <<114>> >>         \* "r": not in the hosts file

DnsRRDataA(addr) == [tag |-> "A", v |-> addr]
DnsRRDataAAAA(addr) == [tag |-> "AAAA", v |-> addr]

\* main.rs:211-217: the record init() builds for one hosts-file line.
HostRecord(name, addr) ==
    [name |-> name, rclass |-> ClassInternet, rtype |-> TypeA,
     data |-> DnsRRDataA(addr), ttl |-> 10]

Unspecified == <<0, 0, 0, 0>>
RrLocal1 == HostRecord(NameLocal, <<1, 2, 3, 4>>)
RrLocal2 == HostRecord(NameLocal, <<5, 6, 7, 8>>)
RrBlocked == HostRecord(NameBlocked, Unspecified)
\* An answer of the upstream resolver.
RrUp == [name |-> NameRemote, rclass |-> ClassInternet, rtype |-> TypeA,
         data |-> DnsRRDataA(<<93, 184, 216, 34>>), ttl |-> 60]

\* An AAAA record of the unspecified IPv6 address.
Rr6Unspec == [name |-> NameBlocked, rclass |-> ClassInternet, rtype |-> TypeAAAA,
              data |-> DnsRRDataAAAA(<<0, 0, 0, 0, 0, 0, 0, 0, 0, 0, 0, 0, 0, 0, 0, 0>>),
              ttl |-> 10]

DnsQuestion(qname, qtype) == [qname |-> qname, qtype |-> qtype, qclass |-> ClassInternet]

DnsHeader(id, query) ==
    [id |-> id, query |-> query, opcode |-> "Query", authoritative |-> FALSE,
     truncated |-> FALSE, recur_desired |-> FALSE, recur_available |-> ~query,
     rcode |-> "NoErrorCondition"]

DnsMessage(header, question, answer) ==
    [header |-> header, question |-> question, answer |-> answer,
     authority |-> <<>>, additional |-> <<>>]

is_query(message) == message.header.query

-----------------------------------------------------------------------------
(* Helpers on sequences.                                                   *)

\* The concatenation of the sequences of ss, by halves.
RECURSIVE Flatten(_)
Flatten(ss) ==
    IF ss = <<>> THEN <<>>
    ELSE IF Len(ss) = 1 THEN ss[1]
    ELSE Flatten(SubSeq(ss, 1, Len(ss) \div 2))
         \o Flatten(SubSeq(ss, Len(ss) \div 2 + 1, Len(ss)))

SeqsUpTo(S, n) == UNION {[1..k -> S] : k \in 0..n}


-----------------------------------------------------------------------------
(* main.rs:246-272: the pure functions.                                    *)

\* main.rs:247-250: the fold computing `refused`.
RECURSIVE AnyUnspecifiedA(_)
AnyUnspecifiedA(answer) ==
    IF answer = <<>> THEN FALSE
    ELSE \/ (Head(answer).data.tag = "A" /\ Head(answer).data.v = Unspecified)
         \/ AnyUnspecifiedA(Tail(answer))

\* A from_answer that never refuses.
from_answer_never_refuses(id, answer) ==
    [header |-> [id |-> id, authoritative |-> FALSE, query |-> FALSE,
                 opcode |-> "Query", truncated |-> FALSE,
                 recur_available |-> FALSE, recur_desired |-> TRUE,
                 rcode |-> "NoErrorCondition"],
     question |-> <<>>, answer |-> answer, authority |-> <<>>, additional |-> <<>>]

\* main.rs:246-265
from_answer(id, answer) ==
    LET refused == AnyUnspecifiedA(answer)
    IN  [header |-> [id |-> id, authoritative |-> FALSE, query |-> FALSE,
                     opcode |-> "Query", truncated |-> FALSE,
                     recur_available |-> FALSE, recur_desired |-> TRUE,
                     rcode |-> IF refused THEN "Refused" ELSE "NoErrorCondition"],
         question |-> <<>>,
         answer |-> IF refused THEN <<>> ELSE answer,
         authority |-> <<>>, additional |-> <<>>]

\* main.rs:268: the drain_filter predicate.
IsLocal(x, local_entries) == x.qname \in DOMAIN local_entries /\ x.qtype = TypeA

\* A filter that drains on the name alone, whatever the question's type.
RECURSIVE filter_questions_any_type(_, _)
filter_questions_any_type(questions, local_entries) ==
    IF questions = <<>> THEN [questions |-> <<>>, answers |-> <<>>]
    ELSE LET x == Head(questions)
             rest == filter_questions_any_type(Tail(questions), local_entries)
         IN  IF x.qname \in DOMAIN local_entries
             THEN [questions |-> rest.questions,
                   answers |-> local_entries[x.qname] \o rest.answers]
             ELSE [questions |-> <<x>> \o rest.questions, answers |-> rest.answers]

\* A filter that collects the answers in reverse drain order.
RECURSIVE filter_questions_reversed(_, _)
filter_questions_reversed(questions, local_entries) ==
    IF questions = <<>> THEN [questions |-> <<>>, answers |-> <<>>]
    ELSE LET x == Head(questions)
             rest == filter_questions_reversed(Tail(questions), local_entries)
         IN  IF IsLocal(x, local_entries)
             THEN [questions |-> rest.questions,
                   answers |-> rest.answers \o local_entries[x.qname]]
             ELSE [questions |-> <<x>> \o rest.questions, answers |-> rest.answers]

\* main.rs:267-272: `questions` is what the drain leaves in the Vec, `answers`
\* what the function returns.
RECURSIVE filter_questions(_, _)
filter_questions(questions, local_entries) ==
    IF questions = <<>> THEN [questions |-> <<>>, answers |-> <<>>]
    ELSE LET x == Head(questions)
             rest == filter_questions(Tail(questions), local_entries)
         IN  IF IsLocal(x, local_entries)
             THEN [questions |-> rest.questions,
                   answers |-> local_entries[x.qname] \o rest.answers]
             ELSE [questions |-> <<x>> \o rest.questions, answers |-> rest.answers]

-----------------------------------------------------------------------------
(* The configuration and the inputs of the engines.                        *)

\* main.rs:218-219: config.local, one Vec of records per name, in file order.
LocalEntries ==
    (NameLocal :> <<RrLocal1, RrLocal2>>) @@ (NameBlocked :> <<RrBlocked>>)

\* main.rs:38: config.dns_addr
DnsAddr == "upstream"
\* The endpoints datagrams arrive from.
Peers == {"c1", "c2"}
Ids == {1, 2}

\* The questions of the engines' requests: two the hosts file answers, and
\* one it does not (its name is in the file, its type is not A).
QLocal == DnsQuestion(NameLocal, TypeA)
QBlocked == DnsQuestion(NameBlocked, TypeA)
QLocal6 == DnsQuestion(NameLocal, TypeAAAA)

\* The question sections of the engines' requests: empty, answered in full,
\* refused, residual only, and mixed in both orders.
QuestionLists ==
    {<<>>, <<QLocal>>, <<QBlocked>>, <<QLocal6>>, <<QLocal, QBlocked>>,
     <<QLocal, QLocal6>>, <<QLocal6, QLocal>>, <<QBlocked, QLocal6>>}

\* The decoded datagrams with QR = 0.
Queries ==
    {DnsMessage(DnsHeader(id, TRUE), qs, <<>>) :
        id \in Ids, qs \in QuestionLists}

\* The decoded datagrams with QR = 1.
Responses ==
    {DnsMessage(DnsHeader(id, FALSE), <<>>, an) : id \in Ids, an \in {<<>>, <<RrUp>>}}

-----------------------------------------------------------------------------
(* main.rs:47, 76, 81: the correlation table, a ttl_cache::TtlCache.  An   *)
(* entry's age is the number of seconds since its insertion; it is expired *)
(* once its age exceeds its ttl.                                           *)

Entry(k, v) == [key |-> k, value |-> v, age |-> 0]

\* A lookup that returns expired entries too.
LiveForever(cache, k) == {e \in cache : e.key = k}

\* main.rs:81: the entry remove(&id) returns: the key's entry, unless expired.
Live(cache, k) == {e \in cache : e.key = k /\ e.age <= Ttl}

\* A dispatcher that sends the query on and records nothing.
TtlCacheInsertNothing(cache, k, v) == cache

\* An insert that keeps the entries the key already has.
TtlCacheInsertKeep(cache, k, v) == cache \cup {Entry(k, v)}

\* main.rs:76  clients.lock().unwrap().insert(id, (addr, answers_local), ttl)
TtlCacheInsert(cache, k, v) == {e \in cache : e.key # k} \cup {Entry(k, v)}

\* A remove that leaves the entry in the table.
TtlCacheRemoveKeep(cache, k) == cache

\* main.rs:81  clients.lock().unwrap().remove(&id): the table afterwards.
TtlCacheRemove(cache, k) == {e \in cache : e.key # k}

-----------------------------------------------------------------------------
(* main.rs:44-90, 156: the UDP engine.                                     *)

Datagram(message, addr) == [message |-> message, addr |-> addr]

\* A dispatcher that sends the filtered query on, residual question or not.
QueryOutAsIs(message, f) == [message EXCEPT !.question = f.questions]

\* main.rs:69: what is sent for a query after filtration.
QueryOut(message, f) ==
    IF Len(f.questions) = 0
    THEN from_answer(message.header.id, f.answers)
    ELSE [message EXCEPT !.question = f.questions]

\* main.rs:60-78: udp_dispatcher on a query.
UdpQuery(message, addr) ==
    /\ udp = "running"
    /\ is_query(message)
    /\ LET id == message.header.id
           f == filter_questions(message.question, LocalEntries)
           out == QueryOut(message, f)
           dest == IF Len(out.question) = 0 THEN addr ELSE DnsAddr
       IN  /\ queue' = Append(queue, Datagram(out, dest))
           /\ clients' = IF Len(out.question) > 0
                         THEN TtlCacheInsert(clients, id, <<addr, f.answers>>)
                         ELSE clients
           /\ last' = IF Len(out.question) = 0 THEN "answered"
                      ELSE IF \E e \in Live(clients, id) : e.value[1] # addr
                           THEN "overwrote" ELSE "forwarded"
    /\ UNCHANGED <<udp, tcpVars, call, codecVars>>

\* main.rs:82-85: the reply sent for a response whose entry was found.
Merged(message, e) ==
    Datagram([message EXCEPT !.answer = @ \o e.value[2]], e.value[1])

\* main.rs:79-89: udp_dispatcher on a response.
UdpResponse(message, addr) ==
    /\ udp = "running"
    /\ ~is_query(message)
    /\ LET id == message.header.id
           found == Live(clients, id)
       IN  /\ clients' = TtlCacheRemove(clients, id)
           /\ IF found # {}
              THEN \E e \in found : queue' = Append(queue, Merged(message, e))
              ELSE queue' = queue
           /\ last' = IF found # {} THEN "merged"
                      ELSE IF \E e \in clients : e.key = id THEN "expired"
                           ELSE "unknown"
    /\ UNCHANGED <<udp, tcpVars, call, codecVars>>

\* main.rs:55-57, 90: a datagram the codec rejects (codec.rs:70-91) is the
\* stream's error, which ends the fold; the join of main.rs:156 then fails and
\* drops the sender with it.
UdpDecodeError ==
    /\ udp = "running"
    /\ udp' = "stopped"
    /\ queue' = <<>>
    /\ clients' = {}
    /\ UNCHANGED <<last, tcpVars, call, codecVars>>

\* main.rs:55-57: a datagram shorter than a header decodes to None
\* (codec.rs:36-38), which ends the stream: the dispatcher completes and the
\* sender goes on draining the queue.
UdpShortDatagram ==
    /\ udp = "running"
    /\ udp' = "draining"
    /\ UNCHANGED <<clients, queue, last, tcpVars, call, codecVars>>

\* A sender that writes the datagram enqueued last.
UdpSendNewest ==
    /\ udp \in {"running", "draining"}
    /\ queue # <<>>
    /\ queue' = SubSeq(queue, 1, Len(queue) - 1)
    /\ UNCHANGED <<clients, udp, last, tcpVars, call, codecVars>>

\* main.rs:50-53: udp_sender writes the head of the queue on the socket.
UdpSend ==
    /\ udp \in {"running", "draining"}
    /\ queue # <<>>
    /\ queue' = Tail(queue)
    /\ UNCHANGED <<clients, udp, last, tcpVars, call, codecVars>>

\* main.rs:51-53: the write fails; the sender's error fails the join.
UdpSendError ==
    /\ udp \in {"running", "draining"}
    /\ queue # <<>>
    /\ udp' = "stopped"
    /\ queue' = <<>>
    /\ clients' = {}
    /\ UNCHANGED <<last, tcpVars, call, codecVars>>

\* One second passes: every entry of the table ages.
Tick ==
    /\ \E e \in clients : e.age <= Ttl
    /\ clients' = {[e EXCEPT !.age = IF @ <= Ttl THEN @ + 1 ELSE @] : e \in clients}
    /\ UNCHANGED <<queue, udp, last, tcpVars, call, codecVars>>

-----------------------------------------------------------------------------
(* main.rs:92-154: the TCP engine.  Each accepted connection has its own   *)
(* forwarder, a fold over the connection's framed stream (main.rs:97-151); *)
(* the future the fold's closure returns handles one request.  tcp[c].pc   *)
(* is the forwarder's position:                                            *)
(*   "idle"        polling the client stream for the next request          *)
(*   "connecting"  main.rs:105, TcpStream::connect(&dns_addr) is pending   *)
(*   "awaiting"    main.rs:123-125, the upstream's response is awaited     *)
(*   "replying"    main.rs:147, sink.send(message) is pending              *)
(*   "closed"      the client's stream ended and the fold completed        *)
(*   "failed"      the fold ended with an error (why says which)           *)
(* request and reply are history: the request as read, the reply as read.  *)

\* The client connections accepted (main.rs:92).
Conns == {"k1"}

NoMessage == [none |-> TRUE]

Forwarder(pc, n, request, local_answers, reply, response, why) ==
    [pc |-> pc, n |-> n, request |-> request, local_answers |-> local_answers,
     reply |-> reply, response |-> response, why |-> why]

Idle(n) == Forwarder("idle", n, NoMessage, <<>>, NoMessage, NoMessage, "")

\* An error ends the fold: its locals, the sink and the stream are dropped.
Failed(t, why) == [Idle(t.n) EXCEPT !.pc = "failed", !.why = why]

\* An upstream connection: the client connection it serves, what was
\* written on it, and whether the forwarder still holds it.
UpstreamConn(c, written) == [client |-> c, written |-> written, open |-> TRUE]

\* A forwarder that never lets go of its upstream connections.
DropNone(conns, c) == conns

\* main.rs:116, 125, 139-142: the framed upstream connection of client
\* connection c is dropped, which closes it: when no query was sent on it,
\* when the response was taken from it, or with the failed future.
Drop(conns, c) ==
    [i \in DOMAIN conns |->
        IF conns[i].client = c THEN [conns[i] EXCEPT !.open = FALSE] ELSE conns[i]]

\* A merge that puts the local answers in front.
ExtendFront(response, local_answers) ==
    [response EXCEPT !.answer = local_answers \o @]

\* main.rs:136  response.answer.extend(local_answers)
Extend(response, local_answers) ==
    [response EXCEPT !.answer = @ \o local_answers]

\* main.rs:97-101: the stream yields the next request.
TcpRequest(c, message) ==
    /\ tcp[c].pc = "idle"
    /\ tcp[c].n < MaxTcpRequests
    /\ tcp' = [tcp EXCEPT ![c] = [Idle(tcp[c].n + 1) EXCEPT
                                     !.pc = "connecting", !.request = message]]
    /\ UNCHANGED <<tcpOut, upstream, udpVars, call, codecVars>>

\* main.rs:105-130: the connection to the upstream is made; the questions are
\* filtered; a residual query is written to the upstream, a request without
\* one gets the synthesized reply and no local answers to append.
TcpConnect(c) ==
    /\ tcp[c].pc = "connecting"
    /\ LET message == tcp[c].request
           id == message.header.id
           f == filter_questions(message.question, LocalEntries)
       IN  IF Len(f.questions) > 0
           THEN /\ upstream' = Append(upstream,
                      UpstreamConn(c, <<[message EXCEPT !.question = f.questions]>>))
                /\ tcp' = [tcp EXCEPT ![c] = [@ EXCEPT !.pc = "awaiting",
                                                        !.local_answers = f.answers]]
           ELSE /\ upstream' = Drop(Append(upstream, UpstreamConn(c, <<>>)), c)
                /\ tcp' = [tcp EXCEPT ![c] = [@ EXCEPT
                      !.pc = "replying",
                      !.response = Extend(from_answer(id, f.answers), <<>>)]]
    /\ UNCHANGED <<tcpOut, udpVars, call, codecVars>>

\* main.rs:105-107: the connection to the upstream fails.
TcpConnectError(c) ==
    /\ tcp[c].pc = "connecting"
    /\ tcp' = [tcp EXCEPT ![c] = Failed(@, "connect")]
    /\ UNCHANGED <<tcpOut, upstream, udpVars, call, codecVars>>

\* main.rs:113: the connection is made and writing the query on it fails.
TcpSendError(c) ==
    /\ tcp[c].pc = "connecting"
    /\ Len(filter_questions(tcp[c].request.question, LocalEntries).questions) > 0
    /\ upstream' = Drop(Append(upstream, UpstreamConn(c, <<>>)), c)
    /\ tcp' = [tcp EXCEPT ![c] = Failed(@, "send")]
    /\ UNCHANGED <<tcpOut, udpVars, call, codecVars>>

\* main.rs:123-137: the upstream's response arrives within the timeout.
TcpResponse(c, resp) ==
    /\ tcp[c].pc = "awaiting"
    /\ tcp' = [tcp EXCEPT ![c] = [@ EXCEPT
          !.pc = "replying",
          !.reply = resp,
          !.response = Extend(resp, tcp[c].local_answers)]]
    /\ upstream' = Drop(upstream, c)
    /\ UNCHANGED <<tcpOut, udpVars, call, codecVars>>

\* main.rs:123, 139-142: the upstream closes, or what it sends does not
\* decode, before any response.
TcpUpstreamClosed(c) ==
    /\ tcp[c].pc = "awaiting"
    /\ tcp' = [tcp EXCEPT ![c] = Failed(@, "closed")]
    /\ upstream' = Drop(upstream, c)
    /\ UNCHANGED <<tcpOut, udpVars, call, codecVars>>

\* main.rs:124: no response within Duration::from_secs(2).
TcpTimeout(c) ==
    /\ tcp[c].pc = "awaiting"
    /\ tcp' = [tcp EXCEPT ![c] = Failed(@, "timeout")]
    /\ upstream' = Drop(upstream, c)
    /\ UNCHANGED <<tcpOut, udpVars, call, codecVars>>

\* main.rs:146-148: the reply is written on the client connection and the
\* fold goes on to the next request.
TcpReply(c) ==
    /\ tcp[c].pc = "replying"
    /\ tcpOut' = [tcpOut EXCEPT ![c] = Append(@, tcp[c].response)]
    /\ tcp' = [tcp EXCEPT ![c] = Idle(tcp[c].n)]
    /\ UNCHANGED <<upstream, udpVars, call, codecVars>>

\* main.rs:147: writing the reply fails (the client is gone).
TcpReplyError(c) ==
    /\ tcp[c].pc = "replying"
    /\ tcp' = [tcp EXCEPT ![c] = Failed(@, "sink")]
    /\ UNCHANGED <<tcpOut, upstream, udpVars, call, codecVars>>

\* main.rs:97-101, 150: the client closes; the stream ends and the fold
\* completes.
TcpClose(c) ==
    /\ tcp[c].pc = "idle"
    /\ tcp' = [tcp EXCEPT ![c] = [@ EXCEPT !.pc = "closed"]]
    /\ UNCHANGED <<tcpOut, upstream, udpVars, call, codecVars>>

\* main.rs:100: a frame of the client that does not decode ends the fold.
TcpStreamError(c) ==
    /\ tcp[c].pc = "idle"
    /\ tcp' = [tcp EXCEPT ![c] = Failed(@, "stream")]
    /\ UNCHANGED <<tcpOut, upstream, udpVars, call, codecVars>>

-----------------------------------------------------------------------------
(* The specifications.                                                     *)

NoCall == [fn |-> "none"]

\* codec.rs:26-28  DnsMessageCodec::new(tcp); Option<usize> is <<>> or <<n>>.
DnsMessageCodecNew(isTcp) == [tcp |-> isTcp, len |-> <<>>, offset |-> 0]

\* A codec that nothing has been given to yet, on an empty buffer.
CodecAtRest(isTcp) ==
    /\ codec = DnsMessageCodecNew(isTcp)
    /\ src = <<>>
    /\ items = <<>>
    /\ wire = <<>>
    /\ readable = FALSE
    /\ hist = <<>>

\* main.rs:42-48: the state main() builds before tokio::run.
Init ==
    /\ clients = {}
    /\ queue = <<>>
    /\ udp = "running"
    /\ last = "none"
    /\ tcp = [c \in Conns |-> Idle(0)]
    /\ tcpOut = [c \in Conns |-> <<>>]
    /\ upstream = <<>>
    /\ call = NoCall
    /\ CodecAtRest(FALSE)

\* The sender queue has room for what the dispatcher sends for the message:
\* the channel of main.rs:45 is unbounded, the model's queue holds at most
\* most datagrams, and a datagram that would not fit arrives later.
Room(message, most) ==
    (is_query(message) \/ Live(clients, message.header.id) # {})
    => Len(queue) < most

\* The UDP engine: main.rs:156, udp_sender.join(udp_dispatcher).
UdpNext ==
    \/ \E message \in Queries, addr \in Peers :
          Room(message, MaxQueue) /\ UdpQuery(message, addr)
    \/ \E message \in Responses, addr \in Peers \cup {DnsAddr} :
          Room(message, MaxQueue) /\ UdpResponse(message, addr)
    \/ UdpDecodeError
    \/ UdpShortDatagram
    \/ UdpSend
    \/ UdpSendError
    \/ Tick

UdpSpec == Init /\ [][UdpNext]_vars

\* The queries and responses behind which the order of the sender queue is
\* looked at: every id, one query answered from the hosts file and one
\* forwarded, and the responses with and without an answer.
EgressQueries ==
    {DnsMessage(DnsHeader(id, TRUE), qs, <<>>) :
        id \in Ids, qs \in {<<QLocal>>, <<QLocal6>>}}

\* The UDP engine with up to MaxWaiting datagrams in the sender queue.
EgressNext ==
    \/ \E message \in EgressQueries, addr \in Peers :
          Room(message, MaxWaiting) /\ UdpQuery(message, addr)
    \/ \E message \in Responses :
          Room(message, MaxWaiting) /\ UdpResponse(message, DnsAddr)
    \/ UdpDecodeError
    \/ UdpShortDatagram
    \/ UdpSend
    \/ UdpSendError

EgressSpec == Init /\ [][EgressNext]_vars

\* The TCP engine: main.rs:92-154, one forwarder per accepted connection.
TcpNext ==
    \/ \E c \in Conns, message \in Queries : TcpRequest(c, message)
    \/ \E c \in Conns : TcpConnect(c)
    \/ \E c \in Conns : TcpConnectError(c)
    \/ \E c \in Conns : TcpSendError(c)
    \/ \E c \in Conns, resp \in Responses : TcpResponse(c, resp)
    \/ \E c \in Conns : TcpUpstreamClosed(c)
    \/ \E c \in Conns : TcpTimeout(c)
    \/ \E c \in Conns : TcpReply(c)
    \/ \E c \in Conns : TcpReplyError(c)
    \/ \E c \in Conns : TcpClose(c)
    \/ \E c \in Conns : TcpStreamError(c)

TcpSpec == Init /\ [][TcpNext]_vars

\* main.rs:92-154: two client connections accepted, each served by its own
\* fold, the two folds running side by side on the executor.
SerialConns == {"k1", "k2"}

\* Requests answered at home, and requests that need the upstream.
SerialQueries ==
    {DnsMessage(DnsHeader(id, TRUE), qs, <<>>) :
        id \in {1}, qs \in {<<QLocal>>, <<QLocal, QLocal6>>}}

SerialResponses ==
    {DnsMessage(DnsHeader(1, FALSE), <<>>, <<RrUp>>)}

SerialInit ==
    /\ clients = {}
    /\ queue = <<>>
    /\ udp = "running"
    /\ last = "none"
    /\ tcp = [c \in SerialConns |-> Idle(0)]
    /\ tcpOut = [c \in SerialConns |-> <<>>]
    /\ upstream = <<>>
    /\ call = NoCall
    /\ CodecAtRest(FALSE)

SerialNext ==
    \/ \E c \in SerialConns, message \in SerialQueries : TcpRequest(c, message)
    \/ \E c \in SerialConns : TcpConnect(c)
    \/ \E c \in SerialConns : TcpSendError(c)
    \/ \E c \in SerialConns, resp \in SerialResponses : TcpResponse(c, resp)
    \/ \E c \in SerialConns : TcpTimeout(c)
    \/ \E c \in SerialConns : TcpReply(c)
    \/ \E c \in SerialConns : TcpReplyError(c)

SerialSpec == SerialInit /\ [][SerialNext]_vars

-----------------------------------------------------------------------------
(* What the claims expect, stated without the program's functions.         *)

\* A question the hosts file answers: type A, name in the table.
Answerable(q, table) == q.qtype = TypeA /\ q.qname \in DOMAIN table

\* The questions left for the upstream, in their original order.
Residual(qs, table) == SelectSeq(qs, LAMBDA q : ~Answerable(q, table))

\* The table's records for the answered questions, in question order.
LocalAnswers(qs, table) ==
    LET drained == SelectSeq(qs, LAMBDA q : Answerable(q, table))
    IN  Flatten([i \in 1..Len(drained) |-> table[drained[i].qname]])

\* The step appends exactly the datagram d to the sender queue.
Enqueues(d) == queue' = Append(queue, d)

AnyAddr == Peers \cup {DnsAddr}

-----------------------------------------------------------------------------
(* The UDP engine's claims.                                                *)

\* C1: a response with id X received while the entry X -> (C, L) made by a
\* forwarded query is live enqueues exactly one datagram, addressed to C, whose
\* answers are the received answers followed by L, and removes the entry, so
\* that a second response with id X finds none; until then only a query or a
\* response with id X (or the engine stopping) changes what X maps to.
C1_Correlation ==
    [][\A e \in clients :
        /\ \A message \in Responses, addr \in AnyAddr :
            (/\ e.key = message.header.id
             /\ e.age <= Ttl
             /\ UdpResponse(message, addr))
            => /\ Enqueues(Datagram(
                     [message EXCEPT !.answer = message.answer \o e.value[2]],
                     e.value[1]))
               /\ \A x \in clients' : x.key # e.key
        /\ (/\ udp' = "running"
            /\ ~ \E message \in Queries \cup Responses, addr \in AnyAddr :
                   /\ message.header.id = e.key
                   /\ UdpQuery(message, addr) \/ UdpResponse(message, addr))
           => \E x \in clients' :
                 /\ x.key = e.key
                 /\ x.value = e.value
                 /\ x.age \in {e.age, e.age + 1}
      ]_vars

\* C1's case: a merged reply, upstream answer first, waits in the queue for a
\* client and the entry is gone.
C1_Witness ==
    /\ last = "merged"
    /\ queue # <<>>
    /\ LET d == queue[Len(queue)]
       IN  /\ d.addr \in Peers
           /\ d.message.answer = <<RrUp, RrLocal1, RrLocal2>>
           /\ \A x \in clients : x.key # d.message.header.id

\* C2: a query with no residual question enqueues exactly one datagram, to
\* the query's sender, with the query's id and is_response = true (query =
\* false); nothing goes to the upstream and the table is unchanged.
C2_LocalOnly ==
    [][\A message \in Queries, addr \in Peers :
        (/\ Residual(message.question, LocalEntries) = <<>>
         /\ UdpQuery(message, addr))
        => /\ Len(queue') = Len(queue) + 1
           /\ SubSeq(queue', 1, Len(queue)) = queue
           /\ queue'[Len(queue')].addr = addr
           /\ queue'[Len(queue')].addr # DnsAddr
           /\ queue'[Len(queue')].message.header.id = message.header.id
           /\ queue'[Len(queue')].message.header.query = FALSE
           /\ clients' = clients
      ]_vars

\* C2's case: the reply synthesized for a query the hosts file answers in
\* full waits in the queue for its sender.
C2_Witness ==
    /\ last = "answered"
    /\ queue # <<>>
    /\ LET d == queue[Len(queue)]
       IN  /\ d.addr \in Peers
           /\ ~d.message.header.query
           /\ d.message.answer = <<RrLocal1, RrLocal2>>

\* C3: a query with a residual question enqueues exactly one datagram, to the
\* upstream, with the same id and the residual questions in their order; the
\* table then maps the id to (sender, local answers), live for Ttl seconds,
\* the other ids' entries are untouched and nothing goes to the client.
C3_Forward ==
    [][\A message \in Queries, addr \in Peers :
        (/\ Residual(message.question, LocalEntries) # <<>>
         /\ UdpQuery(message, addr))
        => /\ Len(queue') = Len(queue) + 1
           /\ SubSeq(queue', 1, Len(queue)) = queue
           /\ queue'[Len(queue')].addr = DnsAddr
           /\ queue'[Len(queue')].addr # addr
           /\ queue'[Len(queue')].message.header.id = message.header.id
           /\ queue'[Len(queue')].message.header.query
           /\ queue'[Len(queue')].message.question
                 = Residual(message.question, LocalEntries)
           /\ {e \in clients' : e.key = message.header.id}
                 = {[key |-> message.header.id,
                     value |-> <<addr, LocalAnswers(message.question, LocalEntries)>>,
                     age |-> 0]}
           /\ {e \in clients' : e.key # message.header.id}
                 = {e \in clients : e.key # message.header.id}
      ]_vars

\* C3's case: a query mixing an answered and a residual question was
\* forwarded: the residual question waits for the upstream and the entry holds
\* the sender and the local answers.
C3_Witness ==
    /\ last = "forwarded"
    /\ queue # <<>>
    /\ LET d == queue[Len(queue)]
       IN  /\ d.addr = DnsAddr
           /\ d.message.question = <<QLocal6>>
           /\ \E e \in clients :
                 /\ e.key = d.message.header.id
                 /\ e.value = <<"c1", <<RrLocal1, RrLocal2>>>>
                 /\ e.age = 0

\* C4: a response whose id has no live entry (never forwarded, already
\* answered, or forwarded more than Ttl seconds earlier) enqueues nothing and
\* leaves the engine running.
C4_Drop ==
    [][\A message \in Responses, addr \in AnyAddr :
        (/\ \A e \in clients : e.key = message.header.id => e.age > Ttl
         /\ UdpResponse(message, addr))
        => /\ queue' = queue
           /\ udp' = "running"
      ]_vars

\* C4's case: a response arrived for an entry older than its ttl and was
\* dropped; the engine is running.
C4_Witness ==
    /\ last = "expired"
    /\ udp = "running"

\* The table holds at most one entry per id.
OnePerId == \A e1, e2 \in clients : e1.key = e2.key => e1 = e2

\* C5: at most one entry per id, and the last writer wins: a forwarded query
\* with id X from C2 replaces the entry another client holds for X by (C2, C2's
\* local answers), and a response is sent to the address of the entry found,
\* to nobody else.
C5_LastWriterWins ==
    [][/\ OnePerId'
       /\ \A message \in Queries, addr \in Peers, e \in clients :
            (/\ e.key = message.header.id
             /\ e.value[1] # addr
             /\ Residual(message.question, LocalEntries) # <<>>
             /\ UdpQuery(message, addr))
            => /\ {x \in clients' : x.key = e.key}
                    = {[key |-> e.key,
                        value |-> <<addr, LocalAnswers(message.question, LocalEntries)>>,
                        age |-> 0]}
               /\ \A x \in clients' : x.key = e.key => x.value[1] # e.value[1]
       /\ \A message \in Responses, addr \in AnyAddr :
            UdpResponse(message, addr)
            => \/ queue' = queue
               \/ /\ Len(queue') = Len(queue) + 1
                  /\ SubSeq(queue', 1, Len(queue)) = queue
                  /\ \A e \in clients :
                        e.key = message.header.id
                        => queue'[Len(queue')].addr = e.value[1]
      ]_vars

\* C5's case: a forwarded query has replaced the live entry of another client.
C5_Witness ==
    /\ last = "overwrote"
    /\ \E e \in clients : e.age = 0 /\ e.value[1] = "c2"

-----------------------------------------------------------------------------
(* The pure functions, applied to inputs drawn from bounded sets.          *)

FnRecords == {RrLocal1, RrBlocked, Rr6Unspec}
FnQuestions == {QLocal, QBlocked, QLocal6, DnsQuestion(NameRemote, TypeA)}
\* Hosts files: the engines' one, one naming other hosts, and an empty one.
FnTables ==
    {LocalEntries,
     (NameRemote :> <<HostRecord(NameRemote, <<9, 9, 9, 9>>)>>)
        @@ (NameBlocked :> <<RrBlocked, HostRecord(NameBlocked, <<1, 1, 1, 1>>)>>),
     <<>>}

Call(fn, args) == [fn |-> fn, args |-> args, done |-> FALSE, ret |-> NoMessage]

FnInit ==
    /\ clients = {}
    /\ queue = <<>>
    /\ udp = "running"
    /\ last = "none"
    /\ tcp = [c \in Conns |-> Idle(0)]
    /\ tcpOut = [c \in Conns |-> <<>>]
    /\ upstream = <<>>
    /\ CodecAtRest(FALSE)
    /\ \/ \E id \in Ids, answer \in SeqsUpTo(FnRecords, MaxLen) :
            call = Call("from_answer", <<id, answer>>)
       \/ \E questions \in SeqsUpTo(FnQuestions, MaxLen), table \in FnTables :
            call = Call("filter_questions", <<questions, table>>)

\* main.rs:246: from_answer(id, &answer)
CallFromAnswer ==
    /\ call.fn = "from_answer"
    /\ ~call.done
    /\ call' = [call EXCEPT !.done = TRUE,
                            !.ret = from_answer(call.args[1], call.args[2])]
    /\ UNCHANGED <<udpVars, tcpVars, codecVars>>

\* main.rs:267: filter_questions(&mut questions, &local_entries)
CallFilterQuestions ==
    /\ call.fn = "filter_questions"
    /\ ~call.done
    /\ call' = [call EXCEPT !.done = TRUE,
                            !.ret = filter_questions(call.args[1], call.args[2])]
    /\ UNCHANGED <<udpVars, tcpVars, codecVars>>

FnNext == CallFromAnswer \/ CallFilterQuestions

FnSpec == FnInit /\ [][FnNext]_vars

-----------------------------------------------------------------------------
(* The claims on the pure functions.                                       *)

\* C6: from_answer(id, answers) has the given id, is a response (query =
\* false), opcode Query, authoritative = false, truncated = false,
\* recursion_desired = true, recursion_available = false; with an A record of
\* 0.0.0.0 among the answers rcode is Refused and the answer section empty,
\* otherwise rcode is NoError and the answer section is answers, in order.
C6_FromAnswer ==
    (call.fn = "from_answer" /\ call.done)
    => LET id == call.args[1]
           answers == call.args[2]
           r == call.ret
           blocked == \E i \in 1..Len(answers) :
                         answers[i].data = DnsRRDataA(<<0, 0, 0, 0>>)
       IN  /\ r.header.id = id
           /\ r.header.query = FALSE
           /\ r.header.opcode = "Query"
           /\ r.header.authoritative = FALSE
           /\ r.header.truncated = FALSE
           /\ r.header.recur_desired = TRUE
           /\ r.header.recur_available = FALSE
           /\ blocked => r.header.rcode = "Refused" /\ r.answer = <<>>
           /\ ~blocked => r.header.rcode = "NoErrorCondition" /\ r.answer = answers
           /\ r.question = <<>> /\ r.authority = <<>> /\ r.additional = <<>>

\* C6's case: from_answer has refused a list of three answers whose last is
\* an A record of 0.0.0.0.
C6_Witness ==
    /\ call.fn = "from_answer"
    /\ call.done
    /\ call.args[2] = <<RrLocal1, Rr6Unspec, RrBlocked>>
    /\ call.ret.header.rcode = "Refused"

\* C7: filter_questions removes exactly the questions of type A whose name is
\* a key of the table, leaves the others in their order, and returns the
\* table's record lists of the removed questions, concatenated in their order.
C7_FilterQuestions ==
    (call.fn = "filter_questions" /\ call.done)
    => LET questions == call.args[1]
           table == call.args[2]
       IN  /\ call.ret.questions = Residual(questions, table)
           /\ call.ret.answers = LocalAnswers(questions, table)

\* C7's case: the filter has drained two of three questions, for names with
\* different record lists, and left the AAAA question of a name of the table.
C7_Witness ==
    /\ call.fn = "filter_questions"
    /\ call.done
    /\ call.args[1] = <<QBlocked, QLocal6, QLocal>>
    /\ call.args[2] = LocalEntries
    /\ call.ret.questions = <<QLocal6>>
    /\ call.ret.answers = <<RrBlocked, RrLocal1, RrLocal2>>

-----------------------------------------------------------------------------
(* The TCP engine's claims.                                                *)

\* The request of connection c cannot be completed: the connection to the
\* upstream or the write on it fails, the upstream closes without a reply, or
\* no response comes within the timeout.
RequestFails(c) ==
    \/ TcpConnectError(c)
    \/ TcpSendError(c)
    \/ TcpUpstreamClosed(c)
    \/ TcpTimeout(c)

\* C8: when the handling of a request fails, nothing is written to the
\* client for it and the forwarder goes back to reading the connection's next
\* request.
C8_FailureIsolation ==
    [][\A c \in Conns :
        RequestFails(c) => /\ tcpOut'[c] = tcpOut[c]
                           /\ tcp'[c].pc = "idle"
      ]_vars

\* C9: for a request with no residual question no upstream connection is
\* opened, and whatever the upstream's state the next step prepares the reply
\* synthesized from the local answers, each once, with the request's id.
C9_TcpLocalOnly ==
    [][\A c \in Conns :
        (/\ tcp[c].pc = "connecting"
         /\ Residual(tcp[c].request.question, LocalEntries) = <<>>
         /\ tcp'[c] # tcp[c])
        => /\ upstream' = upstream
           /\ tcp'[c].pc = "replying"
           /\ tcp'[c].response.header.id = tcp[c].request.header.id
           /\ tcp'[c].response.header.query = FALSE
           /\ tcp'[c].response.answer
                 \in {<<>>, LocalAnswers(tcp[c].request.question, LocalEntries)}
      ]_vars

\* C10: for a request with residual questions a new upstream connection is
\* opened and the request, with its residual questions only, written on it;
\* no step writes on an earlier upstream connection; the client connection is
\* written only by appending one message when a reply is ready, and for an
\* upstream reply that message has the reply's id and the reply's answers
\* followed by the request's local answers.
C10_TcpForward ==
    [][\A c \in Conns :
        /\ (/\ tcp[c].pc = "connecting"
            /\ Residual(tcp[c].request.question, LocalEntries) # <<>>
            /\ TcpConnect(c))
           => /\ Len(upstream') = Len(upstream) + 1
              /\ upstream'[Len(upstream')].client = c
              /\ Len(upstream'[Len(upstream')].written) = 1
              /\ upstream'[Len(upstream')].written[1].header = tcp[c].request.header
              /\ upstream'[Len(upstream')].written[1].question
                    = Residual(tcp[c].request.question, LocalEntries)
              /\ tcpOut' = tcpOut
        /\ \A i \in 1..Len(upstream) : upstream'[i].written = upstream[i].written
        /\ \A resp \in Responses :
              TcpResponse(c, resp)
              => /\ tcp'[c].pc = "replying"
                 /\ tcp'[c].reply = resp
                 /\ tcp'[c].request = tcp[c].request
        /\ tcpOut'[c] # tcpOut[c]
           => /\ tcp[c].pc = "replying"
              /\ tcp'[c].pc = "idle"
              /\ Len(tcpOut'[c]) = Len(tcpOut[c]) + 1
              /\ SubSeq(tcpOut'[c], 1, Len(tcpOut[c])) = tcpOut[c]
              /\ tcp[c].reply # NoMessage
                 => LET m == tcpOut'[c][Len(tcpOut'[c])]
                    IN  /\ m.header.id = tcp[c].reply.header.id
                        /\ m.answer = tcp[c].reply.answer
                              \o LocalAnswers(tcp[c].request.question, LocalEntries)
      ]_vars

\* C10's case: a request mixing an answered and a residual question went to
\* the upstream with its residual question alone, and the reply written to the
\* client carries the upstream's id and answer, then the local answers.
C10_Witness ==
    /\ Len(upstream) = 1
    /\ upstream[1].written # <<>>
    /\ upstream[1].written[1].question = <<QLocal6>>
    /\ upstream[1].written[1].header.id = 1
    /\ tcpOut["k1"] # <<>>
    /\ tcpOut["k1"][1].header.id = 2
    /\ tcpOut["k1"][1].answer = <<RrUp, RrLocal1, RrLocal2>>

-----------------------------------------------------------------------------
(* codec.rs: the wire codec.  A buffer is a sequence of bytes 0..255; the  *)
(* byte Rust writes src[i] is the element i + 1 of the sequence.           *)

\* Rust's | and & on unsigned integers.
RECURSIVE BitOr(_, _)
BitOr(a, b) ==
    IF a = 0 THEN b
    ELSE IF b = 0 THEN a
    ELSE (IF a % 2 = 1 \/ b % 2 = 1 THEN 1 ELSE 0) + 2 * BitOr(a \div 2, b \div 2)

RECURSIVE BitAnd(_, _)
BitAnd(a, b) ==
    IF a = 0 \/ b = 0 THEN 0
    ELSE (IF a % 2 = 1 /\ b % 2 = 1 THEN 1 ELSE 0) + 2 * BitAnd(a \div 2, b \div 2)

\* `flag as u8`
BoolAsU8(flag) == IF flag THEN 1 ELSE 0

\* A u32 of four big-endian bytes.  The checker's integers have 32 bits with a
\* sign, so a u32 of 2^31 and above is held as the same 32 bits read in
\* two's complement; put_u32_be gives back the four bytes of either.
U32(b1, b2, b3, b4) ==
    (IF b1 >= 128 THEN b1 - 256 ELSE b1) * 16777216 + b2 * 65536 + b3 * 256 + b4

\* BufMut::put_u16_be and put_u32_be: the big-endian bytes of an integer.
put_u16_be(n) == <<(n \div 256) % 256, n % 256>>
put_u32_be(n) ==
    <<(n \div 16777216) % 256, (n \div 65536) % 256, (n \div 256) % 256, n % 256>>

\* message.rs:32-36, 351: `opcode as u8`
DnsOpcodeAsU8(opcode) ==
    CASE opcode = "Query" -> 0
      [] opcode = "InverseQuery" -> 1
      [] opcode = "Status" -> 2

\* A conversion that takes every four-bit value for a known opcode.
DnsOpcodeTryFromAny(x) == <<"Query">>

\* message.rs:39-46: Option<DnsOpcode> as a sequence of at most one element.
DnsOpcodeTryFrom(x) ==
    CASE x = 0 -> <<"Query">>
      [] x = 1 -> <<"InverseQuery">>
      [] x = 2 -> <<"Status">>
      [] OTHER -> <<>>

\* message.rs:51-58, 359: `rcode as u8`
DnsRcodeAsU8(rcode) ==
    CASE rcode = "NoErrorCondition" -> 0
      [] rcode = "FormatError" -> 1
      [] rcode = "ServerFailure" -> 2
      [] rcode = "NameError" -> 3
      [] rcode = "NotImplemented" -> 4
      [] rcode = "Refused" -> 5

\* message.rs:61-71
DnsRcodeTryFrom(x) ==
    CASE x = 0 -> <<"NoErrorCondition">>
      [] x = 1 -> <<"FormatError">>
      [] x = 2 -> <<"ServerFailure">>
      [] x = 3 -> <<"NameError">>
      [] x = 4 -> <<"NotImplemented">>
      [] x = 5 -> <<"Refused">>
      [] OTHER -> <<>>

\* message.rs:103-125: a DnsType is modelled by its discriminant.
TypeNS == 2
TypeCNAME == 5
TypeSOA == 6
TypePTR == 12
TypeMX == 15
TypeTXT == 16
ClassAny == 255

\* message.rs:128-153: the values DnsType::try_from accepts.
DnsTypeValues == (1..16) \cup {28} \cup (252..255)
\* message.rs:167-173: the values DnsClass::try_from accepts.
DnsClassValues == {1, 255}

\* message.rs:91-99: the other variants of DnsRRData.
DnsRRDataMX(preference, exchange) == [tag |-> "MX", v |-> <<preference, exchange>>]
DnsRRDataCNAME(cname) == [tag |-> "CNAME", v |-> cname]
DnsRRDataNS(nsdname) == [tag |-> "NS", v |-> nsdname]
DnsRRDataTXT(txt) == [tag |-> "TXT", v |-> txt]
DnsRRDataSOA(mname, rname, serial, refresh, retry, expire, minimum) ==
    [tag |-> "SOA", v |-> <<mname, rname, serial, refresh, retry, expire, minimum>>]

\* message.rs:82-88
DnsResourceRecord(name, rtype, rclass, ttl, data) ==
    [name |-> name, rclass |-> rclass, rtype |-> rtype, data |-> data, ttl |-> ttl]

\* codec.rs:347-366.  In `(opcode as u8) & 0xf << 3` Rust shifts first, so the
\* opcode is masked with 0x78 and is not shifted.
encode_header(message) ==
    LET h == message.header
    IN  put_u16_be(h.id)
        \o << BitOr(BitOr(BitOr(BitOr(BoolAsU8(~h.query) * 128,
                                      BitAnd(DnsOpcodeAsU8(h.opcode), 15 * 8)),
                                BoolAsU8(h.authoritative) * 4),
                          BoolAsU8(h.truncated) * 2),
                    BoolAsU8(h.recur_desired)) >>
        \o << BitOr(BitOr(BoolAsU8(h.recur_available) * 128, 0 * 16),
                    BitAnd(DnsRcodeAsU8(h.rcode), 15)) >>
        \o put_u16_be(Len(message.question) % 65536)
        \o put_u16_be(Len(message.answer) % 65536)
        \o put_u16_be(Len(message.authority) % 65536)
        \o put_u16_be(Len(message.additional) % 65536)

\* codec.rs:368-375: each label behind its length as u8, then a zero byte.
encode_name(name) ==
    Flatten([i \in 1..Len(name) |-> <<Len(name[i]) % 256>> \o name[i]]) \o <<0>>

\* A name_length that forgets the zero byte that ends a name.
name_length_no_zero(name) == (Len(Flatten(name)) + Len(name)) % 65536

\* codec.rs:378-386, in u16 arithmetic.
RECURSIVE name_length(_)
name_length(name) ==
    IF name = <<>> THEN 1
    ELSE (1 + Len(Head(name)) + name_length(Tail(name))) % 65536

\* u32::from(Ipv4Addr): the address as one big-endian integer.
Ipv4AsU32(addr) == U32(addr[1], addr[2], addr[3], addr[4])

\* codec.rs:413-423: the TXT rdata, every string behind its length as u8.
encode_txt(txt) ==
    Flatten([i \in 1..Len(txt) |-> <<Len(txt[i]) % 256>> \o txt[i]])

\* codec.rs:392-438: the RDLENGTH field and the rdata of one record.
encode_rdata(data) ==
    CASE data.tag = "A" -> put_u16_be(4) \o put_u32_be(Ipv4AsU32(data.v))
      [] data.tag = "AAAA" -> put_u16_be(16) \o data.v
      [] data.tag = "MX" ->
            put_u16_be((name_length(data.v[2]) + 2) % 65536)
            \o put_u16_be(data.v[1]) \o encode_name(data.v[2])
      [] data.tag = "CNAME" ->
            put_u16_be(name_length(data.v)) \o encode_name(data.v)
      [] data.tag = "TXT" ->
            put_u16_be(Len(encode_txt(data.v)) % 65536) \o encode_txt(data.v)
      [] data.tag = "SOA" ->
            put_u16_be((name_length(data.v[1]) + name_length(data.v[2]) + 4 * 5) % 65536)
            \o encode_name(data.v[1]) \o encode_name(data.v[2])
            \o put_u32_be(data.v[3]) \o put_u32_be(data.v[4]) \o put_u32_be(data.v[5])
            \o put_u32_be(data.v[6]) \o put_u32_be(data.v[7])
      [] data.tag = "NS" ->
            put_u16_be(name_length(data.v)) \o encode_name(data.v)

\* codec.rs:377-440
encode_rr(rr) ==
    encode_name(rr.name) \o put_u16_be(rr.rtype) \o put_u16_be(rr.rclass)
    \o put_u32_be(rr.ttl) \o encode_rdata(rr.data)

\* codec.rs:316-320
encode_question(question) ==
    encode_name(question.qname) \o put_u16_be(question.qtype)
    \o put_u16_be(question.qclass)

\* codec.rs:315-329: the buffer `this` before the mode-dependent step.
EncodeThis(item) ==
    encode_header(item)
    \o Flatten([i \in 1..Len(item.question) |-> encode_question(item.question[i])])
    \o Flatten([i \in 1..Len(item.answer) |-> encode_rr(item.answer[i])])
    \o Flatten([i \in 1..Len(item.authority) |-> encode_rr(item.authority[i])])
    \o Flatten([i \in 1..Len(item.additional) |-> encode_rr(item.additional[i])])

\* codec.rs:333: the largest datagram.
MaxDatagram == 512

\* A datagram encoder that leaves the header's TC bit as the caller set it.
encode_keep_tc(isTcp, item) ==
    LET Sent(this) ==
            IF isTcp THEN put_u16_be(Len(this) % 65536) \o this
            ELSE IF Len(this) > MaxDatagram
            THEN SubSeq([this EXCEPT ![3] = BitOr(this[3], 2)], 1, MaxDatagram)
            ELSE this
    IN  Sent(EncodeThis(item))

\* codec.rs:311-343: the bytes encode appends to buf.
encode(isTcp, item) ==
    LET Sent(this) ==
            IF isTcp THEN put_u16_be(Len(this) % 65536) \o this
            ELSE IF Len(this) > MaxDatagram
            THEN SubSeq([this EXCEPT ![3] = BitOr(this[3], 2)], 1, MaxDatagram)
            ELSE [this EXCEPT ![3] = BitAnd(this[3], 253)]
    IN  Sent(EncodeThis(item))

-----------------------------------------------------------------------------
(* codec.rs:35-305: the decoder.  A step of the decoder ends in one of     *)
(* "ok", "err" (an Err it returns), "panic" (an index or a slice outside   *)
(* the buffer) or "hang" (a loop that never ends).                         *)

\* src[i] and &src[a..b] exist.
InBuf(s, i) == i >= 0 /\ i < Len(s)
InSlice(s, a, b) == a <= b /\ b <= Len(s)
Byte(s, i) == s[i + 1]
Slice(s, a, b) == SubSeq(s, a + 1, b)
U16At(s, i) == Byte(s, i) * 256 + Byte(s, i + 1)
U32At(s, i) == U32(Byte(s, i), Byte(s, i + 1), Byte(s, i + 2), Byte(s, i + 3))

\* String::from_utf8_lossy, as the UTF-8 bytes of the String it builds: an
\* ASCII byte is kept; a byte that can start no UTF-8 sequence becomes
\* U+FFFD.  The model's buffers hold no multi-byte UTF-8 sequence.
from_utf8_lossy(bytes) ==
    Flatten([i \in 1..Len(bytes) |->
                IF bytes[i] < 128 THEN <<bytes[i]>> ELSE <<239, 191, 189>>])

Step(st, offset, v) == [st |-> st, offset |-> offset, v |-> v]

IsPointer(label_len) == (label_len \div 64) % 4 = 3

\* codec.rs:239-248: the loop over the labels at the cursor; offset is the
\* cursor after label_len was read.
RECURSIVE NameLabels(_, _, _, _)
NameLabels(s, offset, label_len, name) ==
    IF label_len # 0 /\ ~IsPointer(label_len)
    THEN IF ~InSlice(s, offset, offset + label_len)
              \/ ~InBuf(s, offset + label_len)
         THEN Step("panic", offset, name)
         ELSE NameLabels(s, offset + label_len + 1, Byte(s, offset + label_len),
                         Append(name, from_utf8_lossy(Slice(s, offset, offset + label_len))))
    ELSE Step("ok", offset, [label_len |-> label_len, name |-> name])

\* codec.rs:258-273: the loops that follow a pointer; i is the position after
\* label_len was read.  PointerOuter is the test of the outer while,
\* PointerInner one turn of the inner while or the push that follows it.  A
\* walk of more turns than there are positions has come back to a position
\* it left, and so never ends.
RECURSIVE PointerOuter(_, _, _, _, _)
RECURSIVE PointerInner(_, _, _, _, _)
PointerOuter(s, i, label_len, name, fuel) ==
    IF label_len = 0 THEN Step("ok", i, name)
    ELSE PointerInner(s, i, label_len, name, fuel)

PointerInner(s, i, label_len, name, fuel) ==
    IF fuel = 0 THEN Step("hang", i, name)
    ELSE IF IsPointer(label_len)
    THEN IF ~InBuf(s, i) THEN Step("panic", i, name)
         ELSE LET j == BitOr(label_len % 64, Byte(s, i))
              IN  IF ~InBuf(s, j) THEN Step("panic", j, name)
                  ELSE PointerInner(s, j + 1, Byte(s, j), name, fuel - 1)
    ELSE IF ~InSlice(s, i, i + label_len) \/ ~InBuf(s, i + label_len)
         THEN Step("panic", i, name)
         ELSE PointerOuter(s, i + label_len + 1, Byte(s, i + label_len),
                           Append(name, from_utf8_lossy(Slice(s, i, i + label_len))),
                           fuel - 1)

\* codec.rs:234-277: the name at the cursor and the cursor behind it.
next_name(s, offset) ==
    LET Walked(labels, walk) == Step(walk.st, labels.offset + 1, walk.v)
        Pointed(labels, i) ==
            IF ~InBuf(s, i) THEN Step("panic", labels.offset, <<>>)
            ELSE Walked(labels, PointerOuter(s, i + 1, Byte(s, i), labels.v.name,
                                             Len(s) + 1))
        Labelled(labels) ==
            IF labels.st # "ok" THEN labels
            ELSE IF ~IsPointer(labels.v.label_len)
            THEN Step("ok", labels.offset, labels.v.name)
            ELSE IF ~InBuf(s, labels.offset) THEN Step("panic", labels.offset, <<>>)
            ELSE Pointed(labels, BitOr(labels.v.label_len % 64, Byte(s, labels.offset)))
    IN  IF ~InBuf(s, offset) THEN Step("panic", offset, <<>>)
        ELSE Labelled(NameLabels(s, offset + 1, Byte(s, offset), <<>>))

\* codec.rs:279-291: the cursor moves over the two bytes whatever they hold.
next_type(s, offset) ==
    IF ~InBuf(s, offset + 1) THEN Step("panic", offset, 0)
    ELSE IF U16At(s, offset) \in DnsTypeValues
    THEN Step("ok", offset + 2, U16At(s, offset))
    ELSE Step("err", offset + 2, U16At(s, offset))

\* codec.rs:293-304
next_class(s, offset) ==
    IF ~InBuf(s, offset + 1) THEN Step("panic", offset, 0)
    ELSE IF U16At(s, offset) \in DnsClassValues
    THEN Step("ok", offset + 2, U16At(s, offset))
    ELSE Step("err", offset + 2, U16At(s, offset))

\* Ipv6Addr::new(a, .., h).octets(): the eight big-endian segments as octets.
Ipv6AddrNew(s, offset) ==
    Flatten([k \in 1..8 |-> put_u16_be(U16At(s, offset + 2 * (k - 1)))])

\* codec.rs:197-201: the loop over the strings of a TXT rdata.
RECURSIVE TxtStrings(_, _, _, _)
TxtStrings(s, offset, final_pos, txt) ==
    IF offset = final_pos THEN Step("ok", offset, txt)
    ELSE IF ~InBuf(s, offset) THEN Step("panic", offset, txt)
    ELSE LET len == Byte(s, offset)
         IN  IF ~InSlice(s, offset + 1, offset + len) THEN Step("panic", offset, txt)
             ELSE TxtStrings(s, offset + 1 + len, final_pos,
                             Append(txt, from_utf8_lossy(Slice(s, offset + 1, offset + len))))

\* codec.rs:165-229: the rdata at the cursor, by class and type.
RData(s, offset, rclass, rtype, rdlen, final_pos) ==
    LET OfMX(exchange) ==
            IF exchange.st # "ok" THEN exchange
            ELSE Step("ok", exchange.offset, DnsRRDataMX(U16At(s, offset), exchange.v))
        OfCNAME(cname) ==
            IF cname.st # "ok" THEN cname
            ELSE Step("ok", cname.offset, DnsRRDataCNAME(cname.v))
        OfTXT(txt) ==
            IF txt.st # "ok" THEN txt
            ELSE Step("ok", txt.offset, DnsRRDataTXT(txt.v))
        OfSOA(mname, rname) ==
            IF rname.st # "ok" THEN rname
            ELSE IF ~InBuf(s, rname.offset + 19) THEN Step("panic", rname.offset, <<>>)
            ELSE Step("ok", rname.offset + 20,
                      DnsRRDataSOA(mname.v, rname.v,
                                   U32At(s, rname.offset),
                                   U32At(s, rname.offset + 4),
                                   U32At(s, rname.offset + 8),
                                   U32At(s, rname.offset + 12),
                                   U32At(s, rname.offset + 16)))
        OfMName(mname) ==
            IF mname.st # "ok" THEN mname
            ELSE OfSOA(mname, next_name(s, mname.offset))
        OfNS(nsdname) ==
            IF nsdname.st # "ok" THEN nsdname
            ELSE Step("ok", nsdname.offset, DnsRRDataNS(nsdname.v))
    IN  IF rclass = ClassInternet /\ rtype = TypeA
        THEN IF ~InBuf(s, offset + 3) THEN Step("panic", offset, <<>>)
             ELSE Step("ok", offset + rdlen,
                       DnsRRDataA(<<Byte(s, offset), Byte(s, offset + 1),
                                    Byte(s, offset + 2), Byte(s, offset + 3)>>))
        ELSE IF rclass = ClassInternet /\ rtype = TypeAAAA
        THEN IF ~InBuf(s, offset + 15) THEN Step("panic", offset, <<>>)
             ELSE Step("ok", offset + rdlen, DnsRRDataAAAA(Ipv6AddrNew(s, offset)))
        ELSE IF rclass = ClassInternet /\ rtype = TypeMX
        THEN IF ~InBuf(s, offset + 1) THEN Step("panic", offset, <<>>)
             ELSE OfMX(next_name(s, offset + 2))
        ELSE IF rclass = ClassInternet /\ rtype = TypeCNAME
        THEN OfCNAME(next_name(s, offset))
        ELSE IF rclass = ClassInternet /\ rtype = TypeTXT
        THEN OfTXT(TxtStrings(s, offset, final_pos, <<>>))
        ELSE IF rclass = ClassInternet /\ rtype = TypeSOA
        THEN OfMName(next_name(s, offset))
        ELSE IF rclass = ClassInternet /\ rtype = TypeNS
        THEN OfNS(next_name(s, offset))
        ELSE Step("err", offset + rdlen, <<>>)

\* A next_rr that leaves the cursor where the error was found.
next_rr_no_skip(s, offset) ==
    LET Built(name, rtype, rclass, ttl, data) ==
            IF data.st = "err" THEN Step("err", rclass.offset + 4 + 2, <<>>)
            ELSE IF data.st # "ok" THEN data
            ELSE Step("ok", data.offset,
                      DnsResourceRecord(name.v, rtype.v, rclass.v, ttl, data.v))
        Classed(name, rdlen, final_pos, rtype, rclass) ==
            IF rtype.st # "ok" THEN Step("err", rtype.offset, <<>>)
            ELSE IF rclass.st # "ok" THEN Step("err", rclass.offset, <<>>)
            ELSE Built(name, rtype, rclass, U32At(s, rclass.offset),
                       RData(s, rclass.offset + 4 + 2, rclass.v, rtype.v, rdlen, final_pos))
        Typed(name, rdlen, rtype) ==
            Classed(name, rdlen, name.offset + 10 + rdlen, rtype,
                    next_class(s, rtype.offset))
        Named(name) ==
            IF name.st # "ok" THEN name
            ELSE IF ~InBuf(s, name.offset + 9) THEN Step("panic", name.offset, <<>>)
            ELSE Typed(name, U16At(s, name.offset + 8), next_type(s, name.offset))
    IN  Named(next_name(s, offset))

\* codec.rs:142-232: the record at the cursor and the cursor behind it:
\* Named is the code after the name is read, Typed after rdlen and the type,
\* Classed after final_pos and the class, Built after the ttl and the rdata.
next_rr(s, offset) ==
    LET Built(name, rtype, rclass, ttl, data) ==
            IF data.st # "ok" THEN data
            ELSE Step("ok", data.offset,
                      DnsResourceRecord(name.v, rtype.v, rclass.v, ttl, data.v))
        Classed(name, rdlen, final_pos, rtype, rclass) ==
            IF rtype.st # "ok" THEN Step("err", final_pos, <<>>)
            ELSE IF rclass.st # "ok" THEN Step("err", final_pos, <<>>)
            ELSE Built(name, rtype, rclass, U32At(s, rclass.offset),
                       RData(s, rclass.offset + 4 + 2, rclass.v, rtype.v, rdlen, final_pos))
        Typed(name, rdlen, rtype) ==
            Classed(name, rdlen, name.offset + 10 + rdlen, rtype,
                    next_class(s, rtype.offset))
        Named(name) ==
            IF name.st # "ok" THEN name
            ELSE IF ~InBuf(s, name.offset + 9) THEN Step("panic", name.offset, <<>>)
            ELSE Typed(name, U16At(s, name.offset + 8), next_type(s, name.offset))
    IN  Named(next_name(s, offset))

\* codec.rs:107-112, 116-121, 125-130: one section of count records; a record
\* that next_rr refuses is logged and left out.
RECURSIVE Section(_, _, _, _)
Section(s, offset, count, rrs) ==
    LET Read(rr) ==
            IF rr.st \in {"panic", "hang"} THEN Step(rr.st, rr.offset, rrs)
            ELSE Section(s, rr.offset, count - 1,
                         IF rr.st = "ok" THEN Append(rrs, rr.v) ELSE rrs)
    IN  IF count = 0 THEN Step("ok", offset, rrs)
        ELSE Read(next_rr(s, offset))

\* codec.rs:9-16, 98-103: the question loop; or_continue! goes on to the next
\* turn from where the cursor stands when the error is found.
RECURSIVE Questions(_, _, _, _)
Questions(s, offset, count, question) ==
    LET Classed(qname, qtype, qclass) ==
            IF qclass.st = "panic" THEN Step("panic", qclass.offset, question)
            ELSE Questions(s, qclass.offset, count - 1,
                           IF qclass.st = "err" THEN question
                           ELSE Append(question, [qname |-> qname.v, qtype |-> qtype.v,
                                                  qclass |-> qclass.v]))
        Typed(qname, qtype) ==
            IF qtype.st = "panic" THEN Step("panic", qtype.offset, question)
            ELSE IF qtype.st = "err"
            THEN Questions(s, qtype.offset, count - 1, question)
            ELSE Classed(qname, qtype, next_class(s, qtype.offset))
        Named(qname) ==
            IF qname.st # "ok" THEN Step(qname.st, qname.offset, question)
            ELSE Typed(qname, next_type(s, qname.offset))
    IN  IF count = 0 THEN Step("ok", offset, question)
        ELSE Named(next_name(s, offset))

\* What one decode call leaves: its answer ("some", "none", "err", "panic" or
\* "hang"), the message of a "some", the codec and the buffer behind it.
Decoded(kind, message, c, s) ==
    [kind |-> kind, message |-> message, codec |-> c, src |-> s]

\* codec.rs:53-136: the message at the cursor of a buffer that holds a frame.
DecodeMessage(c, s) ==
    IF ~InBuf(s, c.offset + 11) THEN Decoded("panic", NoMessage, c, s)
    ELSE LET o == c.offset
             id == BitOr(Byte(s, o) * 256, Byte(s, o + 1))
             qr == (Byte(s, o + 2) \div 128) % 2
             opcode == (Byte(s, o + 2) \div 8) % 16
             aa == (Byte(s, o + 2) \div 4) % 2
             tc == (Byte(s, o + 2) \div 2) % 2
             rd == Byte(s, o + 2) % 2
             ra == (Byte(s, o + 3) \div 128) % 2
             rcode == Byte(s, o + 3) % 16
             qdcount == U16At(s, o + 4)
             ancount == U16At(s, o + 6)
             nscount == U16At(s, o + 8)
             arcount == U16At(s, o + 10)
         IN  IF DnsOpcodeTryFrom(opcode) = <<>> THEN Decoded("err", NoMessage, c, s)
             ELSE IF DnsRcodeTryFrom(rcode) = <<>> THEN Decoded("err", NoMessage, c, s)
             ELSE
             LET header == [id |-> id, query |-> qr = 0,
                            opcode |-> DnsOpcodeTryFrom(opcode)[1],
                            authoritative |-> aa = 1, truncated |-> tc = 1,
                            recur_desired |-> rd = 1, recur_available |-> ra = 1,
                            rcode |-> DnsRcodeTryFrom(rcode)[1]]
                 WithAdditional(question, answer, authority, additional) ==
                    IF additional.st # "ok" THEN Decoded(additional.st, NoMessage, c, s)
                    ELSE IF additional.offset > Len(s)
                    THEN Decoded("panic", NoMessage,
                                 [c EXCEPT !.offset = additional.offset], s)
                    ELSE Decoded("some",
                                 [header |-> header, question |-> question.v,
                                  answer |-> answer.v, authority |-> authority.v,
                                  additional |-> additional.v],
                                 [c EXCEPT !.offset = 0, !.len = <<>>],
                                 SubSeq(s, additional.offset + 1, Len(s)))
                 WithAuthority(question, answer, authority) ==
                    IF authority.st # "ok" THEN Decoded(authority.st, NoMessage, c, s)
                    ELSE WithAdditional(question, answer, authority,
                                        Section(s, authority.offset, arcount, <<>>))
                 WithAnswer(question, answer) ==
                    IF answer.st # "ok" THEN Decoded(answer.st, NoMessage, c, s)
                    ELSE WithAuthority(question, answer,
                                       Section(s, answer.offset, nscount, <<>>))
                 WithQuestion(question) ==
                    IF question.st # "ok" THEN Decoded(question.st, NoMessage, c, s)
                    ELSE WithAnswer(question, Section(s, question.offset, ancount, <<>>))
             IN  WithQuestion(Questions(s, o + 12, qdcount, <<>>))

\* codec.rs:35-137: Decoder::decode(&mut self, src).
decode(c, s) ==
    IF Len(s) < 12 THEN Decoded("none", NoMessage, c, s)
    ELSE LET c1 == IF c.tcp /\ c.len = <<>>
                   THEN [c EXCEPT !.len = <<BitOr(Byte(s, 0) * 256, Byte(s, 1))>>]
                   ELSE c
         IN  IF c1.len # <<>>
             THEN IF Len(s) < 2 + c1.len[1]
                  THEN Decoded("none", NoMessage, c1, s)
                  ELSE DecodeMessage(c1, SubSeq(s, 3, Len(s)))
             ELSE DecodeMessage(c1, s)

-----------------------------------------------------------------------------
(* The codec as a state machine: one DnsMessageCodec on one buffer, as the *)
(* tests of codec.rs and the framed transports of main.rs:61, 94 and 106   *)
(* drive it.                                                               *)

\* Longest record list of a section of a sample message.
MaxRecords == 2
\* Most messages encoded back to back into one buffer.
MaxFrames == 2

\* message.rs:19-28
HeaderOf(id, query, opcode, aa, tc, rd, ra, rcode) ==
    [id |-> id, query |-> query, opcode |-> opcode, authoritative |-> aa,
     truncated |-> tc, recur_desired |-> rd, recur_available |-> ra,
     rcode |-> rcode]

\* message.rs:4-10
MessageOf(header, question, answer, authority, additional) ==
    [header |-> header, question |-> question, answer |-> answer,
     authority |-> authority, additional |-> additional]

Opcodes == {"Query", "InverseQuery", "Status"}
Rcodes == {"NoErrorCondition", "FormatError", "ServerFailure", "NameError",
           "NotImplemented", "Refused"}
\* Identifiers: the least, the one of the tests (codec.rs:451), the greatest.
CodecIds == {0, 12345, 65535}

\* Every header over CodecIds.
Headers ==
    {HeaderOf(id, query, opcode, aa, tc, rd, ra, rcode) :
        id \in CodecIds, query \in BOOLEAN, opcode \in Opcodes, aa \in BOOLEAN,
        tc \in BOOLEAN, rd \in BOOLEAN, ra \in BOOLEAN, rcode \in Rcodes}

\* codec.rs:455, 481: the name of the tests, "ksqsf.moe".
NameKsqsf == << <<107, 115, 113, 115, 102>>, <<109, 111, 101>> >>
\* A label of n bytes and a name of three labels of the greatest length.
LabelOf(n) == [i \in 1..n |-> 97]
NameLong == <<LabelOf(63), LabelOf(63), LabelOf(63)>>

\* codec.rs:454-458: the question of the tests, and one of class Internet.
QTest == [qname |-> NameKsqsf, qtype |-> TypeAAAA, qclass |-> ClassAny]
QLong == [qname |-> NameLong, qtype |-> TypeA, qclass |-> ClassInternet]

\* codec.rs:485-491: the answer of the tests, and a record of every other
\* kind of data that has a decoder and whose names are written in full.
RrTest == DnsResourceRecord(NameKsqsf, TypeA, ClassInternet, 120,
                            DnsRRDataA(<<127, 0, 0, 1>>))
RrAAAA == DnsResourceRecord(NameLocal, TypeAAAA, ClassInternet,
                            U32(255, 255, 255, 255),
                            DnsRRDataAAAA(<<32, 1, 13, 184, 0, 0, 0, 0,
                                            0, 0, 0, 0, 0, 0, 255, 1>>))
RrMX == DnsResourceRecord(NameKsqsf, TypeMX, ClassInternet, 300,
                          DnsRRDataMX(258, NameBlocked))
RrCNAME == DnsResourceRecord(NameLocal, TypeCNAME, ClassInternet, 65536,
                             DnsRRDataCNAME(NameKsqsf))
RrNS == DnsResourceRecord(NameKsqsf, TypeNS, ClassInternet, 0,
                          DnsRRDataNS(<<>>))
RrSOA == DnsResourceRecord(NameBlocked, TypeSOA, ClassInternet, 1,
                           DnsRRDataSOA(NameLocal, NameKsqsf, 2024010101, 7200,
                                        256, U32(128, 0, 0, 0), 0))
CodecRecords == {RrTest, RrAAAA, RrMX, RrCNAME, RrNS, RrSOA}

\* The header of a response, as from_answer builds it (main.rs:251-260).
ResponseHeader == HeaderOf(12345, FALSE, "Query", FALSE, FALSE, TRUE, FALSE,
                           "NoErrorCondition")

\* Messages with an empty body under every header.
HeaderMessages == {MessageOf(h, <<>>, <<>>, <<>>, <<>>) : h \in Headers}

\* Messages that carry records in every section.
RecordMessages ==
    {MessageOf(ResponseHeader, question, answer, authority, additional) :
        question \in {<<>>, <<QTest>>, <<QTest, QLocal>>},
        answer \in SeqsUpTo(CodecRecords, MaxRecords),
        authority \in {<<>>, <<RrNS>>, <<RrSOA, RrNS>>},
        additional \in {<<>>, <<RrTest>>}}

\* Messages around the size of the largest datagram: two questions of 197
\* bytes under the 12 bytes of the header leave 106 bytes to a third one,
\* which a name of two labels of 63 and 36 bytes fills.
SizedMessage(n, tc) ==
    MessageOf(HeaderOf(12345, TRUE, "Query", FALSE, tc, TRUE, FALSE,
                       "NoErrorCondition"),
              <<QLong, QLong,
                [qname |-> <<LabelOf(63), LabelOf(36 + n - MaxDatagram)>>,
                 qtype |-> TypeA, qclass |-> ClassInternet]>>,
              <<>>, <<>>, <<>>)
\* A response of n records of 17 bytes each.
ManyAnswers(n, tc) ==
    MessageOf(HeaderOf(12345, FALSE, "Query", FALSE, tc, TRUE, FALSE,
                       "NoErrorCondition"),
              <<>>, [i \in 1..n |-> RrLocal1], <<>>, <<>>)
LargeMessages ==
    {SizedMessage(n, tc) : n \in {511, 512, 513, 539}, tc \in BOOLEAN}
    \cup {ManyAnswers(n, tc) : n \in {29, 30, 40}, tc \in BOOLEAN}

\* codec.rs:509-528: the message of test_many, a status request, a response
\* with records in two sections, and a message with an empty body.
StreamMessages ==
    {MessageOf(HeaderOf(12345, FALSE, "Query", FALSE, TRUE, FALSE, FALSE,
                        "NoErrorCondition"),
               <<QTest>>, <<RrTest>>, <<>>, <<>>),
     MessageOf(HeaderOf(7, TRUE, "Status", FALSE, FALSE, TRUE, FALSE,
                        "NoErrorCondition"),
               <<QLocal>>, <<>>, <<>>, <<>>),
     MessageOf(ResponseHeader, <<QLocal>>, <<RrMX, RrCNAME>>, <<RrSOA>>, <<>>),
     MessageOf(ResponseHeader, <<>>, <<>>, <<>>, <<>>)}

\* The string lists of TXT records: none, the empty string, strings of one,
\* two and three bytes, and several strings.
Texts ==
    {<<>>, << <<>> >>, << <<97>> >>, << <<97, 98, 99>> >>,
     << <<97, 98>>, <<99>> >>, << <<120>>, <<>>, <<121, 122>> >>}

\* message.rs:82-88, 96: a TXT record of the name ksqsf.moe.
RrTXT(txt) == DnsResourceRecord(NameKsqsf, TypeTXT, ClassInternet, 60, DnsRRDataTXT(txt))

\* Responses whose one answer is a TXT record, before an A record.
TxtMessages ==
    {MessageOf(ResponseHeader, <<>>, <<RrTXT(txt)>>, <<>>, <<RrTest>>) : txt \in Texts}

\* What one codec is given to encode: one message of any kind, or several
\* messages one behind the other.
ItemLists ==
    {<<m>> : m \in HeaderMessages \cup RecordMessages \cup LargeMessages
                   \cup TxtMessages}
    \cup {ms \in SeqsUpTo(StreamMessages, MaxFrames) : ms # <<>>}

\* codec.rs:53-65: the twelve bytes of a header as they stand on the wire.
RawHeader(id, b2, b3, qdcount, ancount, nscount, arcount) ==
    put_u16_be(id) \o <<b2, b3>> \o put_u16_be(qdcount) \o put_u16_be(ancount)
    \o put_u16_be(nscount) \o put_u16_be(arcount)

\* codec.rs:41: a frame of the stream transport, the payload behind its length.
Frame(payload) == put_u16_be(Len(payload)) \o payload

\* Datagrams whose header holds known and unknown opcodes and rcodes and
\* clear and set Z bits, over no body, over one question, and over a body
\* that is shorter than the five questions the header counts.
HeaderDatagrams ==
    {RawHeader(12345, opcode * 8 + 1, z * 16 + rcode, body[1], 0, 0, 0) \o body[2] :
        opcode \in {0, 1, 2, 3, 8, 15}, z \in {0, 7}, rcode \in {0, 5, 6, 15},
        body \in {<<0, <<>> >>, <<1, encode_question(QTest)>>, <<5, <<255>> >>}}

\* The message of test_many as a frame (codec.rs:509-531).
FrameTest == encode(TRUE, MessageOf(ResponseHeader, <<QTest>>, <<RrTest>>, <<>>, <<>>))

\* Streams of two frames: a header that counts no entry, with pad more bytes
\* behind it in its frame, and the frame of test_many.
FramedStreams ==
    {Frame(RawHeader(7, 1, 0, 0, 0, 0, 0) \o [i \in 1..pad |-> 0]) \o FrameTest :
        pad \in {0, 2}}

\* codec.rs:250-251: the two bytes of a pointer to the offset target.
Pointer(target) == <<192 + target \div 256, target % 256>>

\* A question as it stands on the wire, its name given as bytes.
RawQuestion(name, qtype, qclass) == name \o put_u16_be(qtype) \o put_u16_be(qclass)

\* A datagram of questions only, and the questions a decoder that follows
\* the pointers finds in it.
Case(questions, expected) ==
    [wire |-> RawHeader(12345, 1, 0, Len(questions), 0, 0, 0) \o Flatten(questions),
     question |-> expected]

NameWww == << <<119, 119, 119>> >>
\* Where the question behind QTest starts: 12 + 11 + 4.
AfterQTest == 12 + Len(encode_question(QTest))
\* Where the question behind QLong and a question of one label of 63 bytes
\* starts: 12 + 197 + 69 = 278.
AfterLong == 12 + Len(encode_question(QLong)) + Len(encode_name(<<LabelOf(63)>>)) + 4

\* Names that end in a pointer: the second question points to the name of
\* the first; labels stand before the pointer; a pointer points to a
\* pointer; the target lies at offset 278.
PointerCases ==
    {Case(<<encode_question(QTest),
            RawQuestion(Pointer(12), TypeA, ClassInternet)>>,
          <<QTest, DnsQuestion(NameKsqsf, TypeA)>>),
     Case(<<encode_question(QTest),
            RawQuestion(<<3, 119, 119, 119>> \o Pointer(12), TypeA, ClassInternet)>>,
          <<QTest, DnsQuestion(NameWww \o NameKsqsf, TypeA)>>),
     Case(<<encode_question(QTest),
            RawQuestion(Pointer(12), TypeA, ClassInternet),
            RawQuestion(<<3, 119, 119, 119>> \o Pointer(AfterQTest), TypeAAAA, ClassInternet)>>,
          <<QTest, DnsQuestion(NameKsqsf, TypeA),
            DnsQuestion(NameWww \o NameKsqsf, TypeAAAA)>>),
     Case(<<encode_question(QLong),
            RawQuestion(encode_name(<<LabelOf(63)>>), TypeA, ClassInternet),
            encode_question(QTest),
            RawQuestion(Pointer(AfterLong), TypeA, ClassInternet)>>,
          <<QLong, DnsQuestion(<<LabelOf(63)>>, TypeA), QTest,
            DnsQuestion(NameKsqsf, TypeA)>>)}
PointerDatagrams == {c.wire : c \in PointerCases}

\* codec.rs:143-163: a record as it stands on the wire, with an RDLENGTH
\* that counts the bytes of rdata.
RawRR(name, rtype, rclass, ttl, rdata) ==
    encode_name(name) \o put_u16_be(rtype) \o put_u16_be(rclass) \o put_u32_be(ttl)
    \o put_u16_be(Len(rdata)) \o rdata

\* An unknown type and an unknown class (message.rs:128-153, 167-173).
TypeUnknown == 99
ClassUnknown == 3

\* A response whose second answer and whose first authority record is one
\* that next_rr refuses, with rdata of len bytes, among well-formed records.
ResyncCase(rtype, rclass, len) ==
    [wire |-> RawHeader(12345, 129, 128, 0, 3, 2, 1)
              \o encode_rr(RrTest)
              \o RawRR(NameLocal, rtype, rclass, 60, [i \in 1..len |-> 200 + i])
              \o encode_rr(RrMX)
              \o RawRR(NameKsqsf, rtype, rclass, 60, [i \in 1..len |-> 200 + i])
              \o encode_rr(RrSOA)
              \o encode_rr(RrAAAA),
     answer |-> <<RrTest, RrMX>>,
     authority |-> <<RrSOA>>,
     additional |-> <<RrAAAA>>]

\* Records of an unknown type, of an unknown class, and of a known type and
\* class that have no rdata decoder (codec.rs:225), with no rdata and with
\* rdata of four and of seven bytes.
ResyncCases ==
    {ResyncCase(bad[1], bad[2], len) :
        bad \in {<<TypeUnknown, ClassInternet>>, <<TypeA, ClassUnknown>>,
                 <<TypeUnknown, ClassUnknown>>, <<TypePTR, ClassInternet>>,
                 <<TypeA, ClassAny>>},
        len \in {0, 4, 7}}
ResyncDatagrams == {c.wire : c \in ResyncCases}

\* A response whose second question is of the given type and class, between
\* two well-formed questions and before one answer.
SkipCase(qtype, qclass) ==
    [wire |-> RawHeader(12345, 129, 128, 3, 1, 0, 0)
              \o encode_question(QTest)
              \o RawQuestion(encode_name(NameRemote), qtype, qclass)
              \o encode_question(QLocal)
              \o encode_rr(RrTest),
     question |-> <<QTest, QLocal>>,
     answer |-> <<RrTest>>]

\* Questions of an unknown type, of an unknown class, and of both.
SkipCases ==
    {SkipCase(TypeA, ClassUnknown), SkipCase(TypeUnknown, ClassInternet),
     SkipCase(TypeUnknown, ClassUnknown)}
SkipDatagrams == {c.wire : c \in SkipCases}

\* codec.rs:143-163: a record of the name ksqsf.moe as it stands on the
\* wire, with the RDLENGTH given, whatever the bytes of rdata are.
RawRecord(rtype, rclass, rdlen, rdata) ==
    encode_name(NameKsqsf) \o put_u16_be(rtype) \o put_u16_be(rclass)
    \o put_u32_be(60) \o put_u16_be(rdlen) \o rdata

\* The bytes 201, 202, .. that stand behind a name inside the rdata.
Padding(n) == [i \in 1..n |-> 200 + i]

\* A response of two answers: the record given, which starts at offset 12,
\* and the answer of the tests behind it.
CursorCase(record) ==
    RawHeader(12345, 129, 128, 0, 2, 0, 0) \o record \o encode_rr(RrTest)

\* The rdata of an SOA record behind its two names.
SoaNumbers == put_u32_be(1) \o put_u32_be(2) \o put_u32_be(3) \o put_u32_be(4)
              \o put_u32_be(5)

\* Records whose RDLENGTH is and is not the length of what the decoder reads
\* of the rdata: addresses of 4 and 16 bytes under an RDLENGTH of 4, 6, 16
\* and 18; names written in full and as a pointer to offset 12, under the
\* RDLENGTH of their bytes, under a longer one with padding behind the name,
\* and under a shorter one.
CursorRecords ==
    {RawRecord(TypeA, ClassInternet, 4, <<10, 0, 0, 1>>),
     RawRecord(TypeA, ClassInternet, 6, <<10, 0, 0, 1>> \o Padding(2)),
     RawRecord(TypeAAAA, ClassInternet, 16, [i \in 1..16 |-> i]),
     RawRecord(TypeAAAA, ClassInternet, 18, [i \in 1..16 |-> i] \o Padding(2)),
     RawRecord(TypeUnknown, ClassInternet, 3, Padding(3)),
     RawRecord(TypeCNAME, ClassInternet, Len(encode_name(NameLocal)),
               encode_name(NameLocal)),
     RawRecord(TypeCNAME, ClassInternet, 2, Pointer(12)),
     RawRecord(TypeCNAME, ClassInternet, 4, Pointer(12) \o Padding(2)),
     RawRecord(TypeCNAME, ClassInternet, Len(encode_name(NameLocal)) + 2,
               encode_name(NameLocal) \o Padding(2)),
     RawRecord(TypeNS, ClassInternet, Len(encode_name(NameBlocked)) - 1,
               encode_name(NameBlocked)),
     RawRecord(TypeMX, ClassInternet, 2 + Len(encode_name(NameLocal)),
               put_u16_be(10) \o encode_name(NameLocal)),
     RawRecord(TypeMX, ClassInternet, 2 + Len(encode_name(NameLocal)) + 3,
               put_u16_be(10) \o encode_name(NameLocal) \o Padding(3)),
     RawRecord(TypeSOA, ClassInternet, 2 * Len(encode_name(NameLocal)) + 20,
               encode_name(NameLocal) \o encode_name(NameLocal) \o SoaNumbers),
     RawRecord(TypeSOA, ClassInternet, 2 * Len(encode_name(NameLocal)) + 20 + 1,
               encode_name(NameLocal) \o encode_name(NameLocal) \o SoaNumbers
               \o Padding(1))}
CursorDatagrams == {CursorCase(record) : record \in CursorRecords}

\* codec.rs:194-204: a response whose first answer is a TXT record with the
\* given strings, each behind its length, as its rdata, before an A record.
TxtCase(txt) ==
    [wire |-> RawHeader(12345, 129, 128, 0, 2, 0, 0)
              \o RawRR(NameKsqsf, TypeTXT, ClassInternet, 60,
                       Flatten([i \in 1..Len(txt) |-> <<Len(txt[i])>> \o txt[i]]))
              \o encode_rr(RrTest),
     answer |-> <<RrTXT(txt), RrTest>>]
TxtCases == {TxtCase(txt) : txt \in Texts}
TxtDatagrams == {c.wire : c \in TxtCases}

\* codec.rs:250-274: a query of one question whose name, at offset 12, is
\* the bytes given.
CycleCase(name) ==
    [wire |-> RawHeader(12345, 1, 0, 1, 0, 0, 0)
              \o RawQuestion(name, TypeA, ClassInternet)]

\* Names whose pointers come back to where they started: a pointer to its
\* own offset, two pointers to each other, and a label before a pointer to
\* that label.
CycleCases ==
    {CycleCase(Pointer(12)),
     CycleCase(Pointer(14) \o Pointer(12)),
     CycleCase(<<3, 119, 119, 119>> \o Pointer(12))}
CycleDatagrams == {c.wire : c \in CycleCases}

\* codec.rs:197-201: a response whose first answer is a TXT record whose
\* strings end behind its RDLENGTH: the last length byte counts more bytes
\* than the rdata has left.
OverrunCase(rdata) ==
    [wire |-> RawHeader(12345, 129, 128, 0, 2, 0, 0)
              \o RawRR(NameKsqsf, TypeTXT, ClassInternet, 60, rdata)
              \o encode_rr(RrTest)]
OverrunCases ==
    {OverrunCase(<<5, 97, 98>>), OverrunCase(<<1, 97, 9>>),
     OverrunCase(<<2, 97, 98, 1>>)}
OverrunDatagrams == {c.wire : c \in OverrunCases}

\* The datagrams and the streams of the model.
Datagrams ==
    HeaderDatagrams \cup PointerDatagrams \cup ResyncDatagrams \cup SkipDatagrams
    \cup CursorDatagrams \cup TxtDatagrams \cup CycleDatagrams \cup OverrunDatagrams
Streams == {Frame(d) : d \in Datagrams} \cup FramedStreams

\* The codec still runs: no call has panicked or hangs.
Alive == IF hist = <<>> THEN TRUE ELSE hist[Len(hist)].kind \notin {"panic", "hang"}

\* One call in the history: the message given to encode or returned by
\* decode, the bytes appended by encode or taken by decode, and the buffer
\* before the call.
Called(op, kind, message, bytes, before) ==
    [op |-> op, kind |-> kind, message |-> message, bytes |-> bytes,
     before |-> before]

\* codec.rs:311-343: codec.encode(item, &mut buf) of the next message.
Encode ==
    /\ Alive
    /\ items # <<>>
    /\ LET Written(bytes) ==
                /\ src' = src \o bytes
                /\ hist' = Append(hist, Called("encode", "ok", Head(items), bytes, src))
       IN  Written(encode(codec.tcp, Head(items)))
    /\ items' = Tail(items)
    /\ readable' = TRUE
    /\ UNCHANGED <<codec, wire, udpVars, tcpVars, call>>

\* main.rs:61, 94: the transport reads into the buffer: the n next bytes of a
\* stream, or a whole datagram into the emptied buffer.
Feed(n) ==
    /\ Alive
    /\ wire # <<>>
    /\ n \in 1..Len(Head(wire))
    /\ codec.tcp \/ n = Len(Head(wire))
    /\ src' = (IF codec.tcp THEN src ELSE <<>>) \o SubSeq(Head(wire), 1, n)
    /\ wire' = IF n = Len(Head(wire)) THEN Tail(wire)
               ELSE <<SubSeq(Head(wire), n + 1, Len(Head(wire)))>> \o Tail(wire)
    /\ readable' = TRUE
    /\ UNCHANGED <<codec, items, hist, udpVars, tcpVars, call>>

\* codec.rs:35-137: codec.decode(&mut buf); the transport calls it again
\* after a message and waits for more bytes after None.
Decode ==
    /\ Alive
    /\ readable
    /\ LET Returned(r) ==
                /\ codec' = r.codec
                /\ src' = r.src
                /\ readable' = (r.kind = "some")
                /\ hist' = IF r.kind = "none" THEN hist
                           ELSE Append(hist, Called("decode", r.kind, r.message,
                                                    SubSeq(src, 1, Len(src) - Len(r.src)),
                                                    src))
       IN  Returned(decode(codec, src))
    /\ UNCHANGED <<items, wire, udpVars, tcpVars, call>>

\* The bytes of the segment that arrives next.
Arriving == IF wire = <<>> THEN 0 ELSE Len(Head(wire))

CodecInit ==
    /\ clients = {}
    /\ queue = <<>>
    /\ udp = "running"
    /\ last = "none"
    /\ tcp = [c \in Conns |-> Idle(0)]
    /\ tcpOut = [c \in Conns |-> <<>>]
    /\ upstream = <<>>
    /\ call = NoCall
    /\ src = <<>>
    /\ readable = FALSE
    /\ hist = <<>>
    /\ \E isTcp \in BOOLEAN :
        /\ codec = DnsMessageCodecNew(isTcp)
        /\ \/ items \in ItemLists /\ wire = <<>>
           \/ /\ items = <<>>
              /\ \E segment \in (IF isTcp THEN Streams ELSE Datagrams) :
                    wire = <<segment>>

CodecNext ==
    \/ Encode
    \/ \E n \in 1..Arriving : Feed(n)
    \/ Decode

CodecSpec == CodecInit /\ [][CodecNext]_vars

-----------------------------------------------------------------------------
(* The codec's properties.                                                 *)

\* The last call of the history.
LastCall == hist[Len(hist)]

\* C11: in datagram mode encode appends at most 512 bytes; bit TC of byte 2
\* is set exactly when the full encoding is longer than 512 bytes, and then
\* the bytes appended are its first 512 bytes; a message that fits decodes
\* with truncated false whatever flag it was given.
C11_DatagramLimit ==
    \A i \in 1..Len(hist) :
        LET e == hist[i]
            full == EncodeThis(e.message)
        IN  (e.op = "encode" /\ ~codec.tcp)
            => /\ Len(e.bytes) <= 512
               /\ (BitAnd(e.bytes[3], 2) = 2) <=> (Len(full) > 512)
               /\ Len(full) > 512
                  => e.bytes = [SubSeq(full, 1, 512) EXCEPT ![3] = BitOr(full[3], 2)]
               /\ (Len(full) <= 512 /\ i < Len(hist) /\ hist[i + 1].op = "decode"
                   /\ hist[i + 1].before = e.bytes)
                  => /\ hist[i + 1].kind = "some"
                     /\ hist[i + 1].message.header.truncated = FALSE

\* C11's case: a message of 513 bytes, given with truncated = false, was
\* encoded as a datagram of 512 bytes with bit TC set.
C11_Witness ==
    /\ ~codec.tcp
    /\ hist # <<>>
    /\ LastCall.op = "encode"
    /\ ~LastCall.message.header.truncated
    /\ Len(EncodeThis(LastCall.message)) = 513
    /\ Len(LastCall.bytes) = 512
    /\ BitAnd(LastCall.bytes[3], 2) = 2

\* The encode calls of a datagram codec whose bytes, alone in the buffer,
\* the next call decoded (codec.rs:467-468, 499-500).
RoundTrips ==
    {i \in 1..(Len(hist) - 1) :
        /\ ~codec.tcp
        /\ hist[i].op = "encode"
        /\ hist[i + 1].op = "decode"
        /\ hist[i + 1].before = hist[i].bytes}

\* C12: a header of any id, direction, opcode, rcode and AA, RD, RA flags
\* comes back from the decoding of its datagram encoding with the same id,
\* direction, opcode, flags and rcode; on the wire bit QR is 1 exactly for a
\* response and bits 3-6 of byte 2 hold the opcode.
C12_HeaderRoundTrip ==
    \A i \in RoundTrips :
        LET h == hist[i].message.header
            bytes == hist[i].bytes
            d == hist[i + 1]
        IN  /\ (bytes[3] \div 128 = 1) <=> ~h.query
            /\ (bytes[3] \div 8) % 16 = DnsOpcodeAsU8(h.opcode)
            /\ d.kind = "some"
            /\ d.message.header.id = h.id
            /\ d.message.header.query = h.query
            /\ d.message.header.opcode = h.opcode
            /\ d.message.header.authoritative = h.authoritative
            /\ d.message.header.recur_desired = h.recur_desired
            /\ d.message.header.recur_available = h.recur_available
            /\ d.message.header.rcode = h.rcode

\* The records of the three record sections of a message.
RecordsOf(message) == message.answer \o message.authority \o message.additional

\* The RDLENGTH field of an encoded record counts the bytes written behind it.
RdLengthExact(rr) ==
    LET bytes == encode_rr(rr)
        fixed == Len(encode_name(rr.name)) + 10
    IN  U16At(bytes, fixed - 2) = Len(bytes) - fixed

\* C13: a message that fits in 512 bytes, with questions of known type and
\* class and records of A, AAAA, MX, CNAME, NS or SOA data whose names are
\* written in full, comes back from the decoding of its datagram encoding
\* with the same questions and the same records in the same sections and
\* order, and every RDLENGTH written is the number of rdata bytes written.
C13_RecordRoundTrip ==
    \A i \in RoundTrips :
        LET m == hist[i].message
            d == hist[i + 1]
        IN  (/\ Len(EncodeThis(m)) <= 512
             /\ \A k \in 1..Len(RecordsOf(m)) :
                    RecordsOf(m)[k].data.tag \in {"A", "AAAA", "MX", "CNAME", "NS", "SOA"})
            => /\ d.kind = "some"
               /\ d.message.question = m.question
               /\ d.message.answer = m.answer
               /\ d.message.authority = m.authority
               /\ d.message.additional = m.additional
               /\ \A k \in 1..Len(RecordsOf(m)) : RdLengthExact(RecordsOf(m)[k])

\* C13's case: a message with two questions and MX, CNAME, SOA, NS and A
\* records in its three sections was encoded and decoded.
C13_Witness ==
    \E i \in RoundTrips :
        /\ hist[i].message.question = <<QTest, QLocal>>
        /\ hist[i].message.answer = <<RrMX, RrCNAME>>
        /\ hist[i].message.authority = <<RrSOA, RrNS>>
        /\ hist[i].message.additional = <<RrTest>>
        /\ hist[i + 1].message.answer = <<RrMX, RrCNAME>>
        /\ hist[i + 1].message.authority = <<RrSOA, RrNS>>

\* The buffer starts with the two bytes of a length and the header of a
\* message, of a known opcode and rcode, in a frame of that length.
HoldsFrame(s) ==
    /\ Len(s) >= 2
    /\ U16At(s, 0) >= 12
    /\ Len(s) >= 2 + U16At(s, 0)
    /\ DnsOpcodeTryFrom((Byte(s, 4) \div 8) % 16) # <<>>
    /\ DnsRcodeTryFrom(Byte(s, 5) % 16) # <<>>

\* C14: in stream mode decode answers None and takes nothing from the buffer
\* while it holds fewer than 2 bytes or fewer than 2 + length bytes, length
\* being the big-endian value of the first two bytes; once the frame is
\* there it returns one message and takes exactly 2 + length bytes, however
\* many bytes the sections of the message fill in the frame.
C14_StreamDecode ==
    [][ (Decode /\ codec.tcp /\ \A i \in 1..Len(hist) : hist[i].kind # "err")
        => /\ (Len(src) < 2 \/ Len(src) < 2 + U16At(src, 0))
              => (hist' = hist /\ src' = src)
           /\ HoldsFrame(src)
              => /\ Len(hist') = Len(hist) + 1
                 /\ hist'[Len(hist')].kind = "some"
                 /\ Len(src') = Len(src) - (2 + U16At(src, 0))
      ]_vars

\* The messages given to encode and the messages decode returned, in order.
IsEncode(e) == e.op = "encode"
IsDecode(e) == e.op = "decode"
EncodedMessages ==
    [i \in 1..Len(SelectSeq(hist, IsEncode)) |-> SelectSeq(hist, IsEncode)[i].message]
DecodedMessages ==
    [i \in 1..Len(SelectSeq(hist, IsDecode)) |-> SelectSeq(hist, IsDecode)[i].message]

\* C15: the messages one stream codec encoded one behind the other into one
\* buffer come back from as many decode calls, in order; the buffer is then
\* empty and one more decode call returns no message.
C15_StreamFraming ==
    (codec.tcp /\ EncodedMessages # <<>>)
    => /\ \A i \in 1..Len(hist) : hist[i].kind \in {"ok", "some"}
       /\ Len(DecodedMessages) <= Len(EncodedMessages)
       /\ DecodedMessages = SubSeq(EncodedMessages, 1, Len(DecodedMessages))
       /\ (items = <<>> /\ ~readable)
          => /\ DecodedMessages = EncodedMessages
             /\ src = <<>>

\* The encoded entries of a message in the order encode writes them, and the
\* offset in the message behind its n-th entry.
EntriesOf(item) ==
    [i \in 1..Len(item.question) |-> encode_question(item.question[i])]
    \o [i \in 1..Len(RecordsOf(item)) |-> encode_rr(RecordsOf(item)[i])]
EndOfEntry(item, n) == 12 + Len(Flatten(SubSeq(EntriesOf(item), 1, n)))

\* How many of the entries lo..hi of a message are whole in the len first
\* bytes of its encoding.
EntriesPresent(item, lo, hi, len) ==
    Cardinality({n \in lo..hi : EndOfEntry(item, n) <= len})

\* C16: in every message encode emits, as a datagram or as a frame, datagrams
\* cut to 512 bytes included, the four counts of the header are the numbers
\* of entries of the four sections that the emitted bytes hold.
C16_Counts ==
    \A i \in 1..Len(hist) :
        LET m == hist[i].message
            out == IF codec.tcp THEN SubSeq(hist[i].bytes, 3, Len(hist[i].bytes))
                   ELSE hist[i].bytes
            qd == Len(m.question)
            an == qd + Len(m.answer)
            ns == an + Len(m.authority)
            ar == ns + Len(m.additional)
        IN  hist[i].op = "encode"
            => /\ U16At(out, 4) = EntriesPresent(m, 1, qd, Len(out))
               /\ U16At(out, 6) = EntriesPresent(m, qd + 1, an, Len(out))
               /\ U16At(out, 8) = EntriesPresent(m, an + 1, ns, Len(out))
               /\ U16At(out, 10) = EntriesPresent(m, ns + 1, ar, Len(out))

\* The buffer as decode reads it once a frame is there: behind the two bytes
\* of the length in stream mode (codec.rs:45-51).
Payload(c, s) == IF c.tcp THEN SubSeq(s, 3, Len(s)) ELSE s

\* decode gets to read a whole header from the buffer (codec.rs:36-51).
HoldsHeader(c, s) ==
    /\ Len(s) >= 12
    /\ c.tcp => Len(s) >= 2 + (IF c.len # <<>> THEN c.len[1] ELSE U16At(s, 0))
    /\ Len(Payload(c, s)) >= c.offset + 12

\* The opcode, Z and rcode fields of the header decode reads.
OpcodeBits(c, s) == (Byte(Payload(c, s), c.offset + 2) \div 8) % 16
ZBits(c, s) == (Byte(Payload(c, s), c.offset + 3) \div 16) % 8
RcodeBits(c, s) == Byte(Payload(c, s), c.offset + 3) % 16

\* C17: decode of a buffer whose header holds an opcode outside {0, 1, 2} or
\* an rcode outside {0..5} returns an error and no message, whatever follows
\* the header; the Z bits are never the cause of an error.
C17_HeaderErrors ==
    [][ (Decode /\ HoldsHeader(codec, src))
        => /\ (OpcodeBits(codec, src) \notin {0, 1, 2}
               \/ RcodeBits(codec, src) \notin 0..5)
              => /\ Len(hist') = Len(hist) + 1
                 /\ hist'[Len(hist')].kind = "err"
                 /\ hist'[Len(hist')].message = NoMessage
           /\ (OpcodeBits(codec, src) \in {0, 1, 2} /\ RcodeBits(codec, src) \in 0..5
               /\ ZBits(codec, src) # 0 /\ Len(hist') = Len(hist) + 1)
              => hist'[Len(hist')].kind # "err"
      ]_vars

\* C17's case: decode has returned an error for a datagram that holds a
\* well-formed question under a header of opcode 15, rcode 0 and clear Z bits.
C17_Witness ==
    /\ hist # <<>>
    /\ LastCall.op = "decode"
    /\ LastCall.kind = "err"
    /\ LastCall.message = NoMessage
    /\ LastCall.before =
          RawHeader(12345, 15 * 8 + 1, 0, 1, 0, 0, 0) \o encode_question(QTest)

\* The decode calls that found the wire of a case alone in the buffer.
DecodesOf(c) ==
    {i \in 1..Len(hist) :
        /\ hist[i].op = "decode"
        /\ hist[i].before = (IF codec.tcp THEN Frame(c.wire) ELSE c.wire)}

\* C18: a name that ends in a pointer decodes to the labels before the
\* pointer followed by the name at the 14-bit target, the low 6 bits of the
\* first byte being the high part, whether the target lies below or above
\* offset 256 and through pointers to pointers; the cursor goes on behind the
\* two bytes of the pointer, so the questions that follow are found and the
\* whole message is taken.
C18_NamePointer ==
    \A c \in PointerCases : \A i \in DecodesOf(c) :
        /\ hist[i].kind = "some"
        /\ hist[i].message.question = c.question
        /\ hist[i].bytes = hist[i].before

\* C19: a record of an unknown type or class, or of a class and type without
\* rdata decoder, that declares RDLENGTH = L is the only record dropped: the
\* decoder goes on exactly L bytes behind its RDLENGTH field, the message
\* decodes, and it holds every well-formed record before and behind the
\* dropped one, in the same section and in the later ones.
C19_Resync ==
    \A c \in ResyncCases : \A i \in DecodesOf(c) :
        /\ hist[i].kind = "some"
        /\ hist[i].message.answer = c.answer
        /\ hist[i].message.authority = c.authority
        /\ hist[i].message.additional = c.additional
        /\ hist[i].bytes = hist[i].before

\* C19's case: a response whose second answer and first authority record are
\* of type 99 with seven bytes of rdata was decoded to a message of the two
\* other answers and the other authority record.
C19_Witness ==
    \E i \in DecodesOf(ResyncCase(TypeUnknown, ClassInternet, 7)) :
        /\ hist[i].kind = "some"
        /\ hist[i].message.answer = <<RrTest, RrMX>>
        /\ hist[i].message.authority = <<RrSOA>>

\* C20: a question of an unknown qtype or an unknown qclass is left out of
\* the message and decoding goes on at the byte behind the two bytes of its
\* qclass: the questions and the records that follow it are decoded as they
\* were written, and the whole message is taken.
C20_QuestionSkip ==
    \A c \in SkipCases : \A i \in DecodesOf(c) :
        /\ hist[i].kind = "some"
        /\ hist[i].message.question = c.question
        /\ hist[i].message.answer = c.answer
        /\ hist[i].bytes = hist[i].before

-----------------------------------------------------------------------------
(* The engines' claims on errors, ordering and refusal.                    *)

\* C21: a received datagram that fails to decode is dropped alone: the engine
\* keeps running, with the sender queue and the correlation table as they
\* were, so that the queries and responses received afterwards are processed.
C21_DecodeErrorDropped ==
    [][UdpDecodeError => /\ udp' = "running"
                         /\ queue' = queue
                         /\ clients' = clients
      ]_vars

\* C22: while the sender queue is open a step changes it in one of two ways
\* only: the dispatcher appends one datagram behind those that wait, or the
\* one writer takes the datagram at its head, which is the write on the
\* socket; so the writes follow the order of the enqueues and no datagram is
\* lost, written twice or overtaken.
C22_EgressOrder ==
    [][udp' # "stopped"
       => \/ queue' = queue
          \/ /\ Len(queue') = Len(queue) + 1
             /\ SubSeq(queue', 1, Len(queue)) = queue
             /\ ~UdpSend
          \/ /\ UdpSend
             /\ queue # <<>>
             /\ \A i \in 1..Len(queue') : queue'[i] = queue[i + 1]
             /\ Len(queue') = Len(queue) - 1
      ]_vars

\* C22's case: a forwarded query has been written (its entry is in the
\* table and it waits no more) while two different datagrams enqueued behind
\* it still wait.
C22_Witness ==
    /\ udp = "running"
    /\ Len(queue) = 2
    /\ queue[1] # queue[2]
    /\ \E e \in clients :
          \A i \in 1..Len(queue) :
             ~(queue[i].addr = DnsAddr /\ queue[i].message.header.id = e.key)

-----------------------------------------------------------------------------
(* The decoder's claims on the cursor, on TXT rdata and on termination.    *)

\* The position a record that starts at offset must leave the cursor at: the
\* end of its name, the ten bytes of type, class, ttl and RDLENGTH, and
\* RDLENGTH bytes of rdata.
FinalPos(s, offset) ==
    next_name(s, offset).offset + 10 + U16At(s, next_name(s, offset).offset + 8)

\* next_rr leaves the cursor at FinalPos for each of the count records that
\* start at offset, as far as it returns at all.
RECURSIVE CursorsExact(_, _, _)
CursorsExact(s, offset, count) ==
    LET Read(rr) ==
            rr.st \in {"ok", "err"}
            => /\ rr.offset = FinalPos(s, offset)
               /\ CursorsExact(s, rr.offset, count - 1)
    IN  count = 0 \/ Read(next_rr(s, offset))

\* C23: for every record the decoder processes, decoded or skipped, whatever
\* its rdata holds, the cursor behind the record is the end of its name plus
\* ten plus RDLENGTH.
C23_PostRecordCursor ==
    \A i \in 1..Len(hist) :
        (IsDecode(hist[i]) /\ ~codec.tcp /\ hist[i].before \in CursorDatagrams)
        => CursorsExact(hist[i].before, 12, 2)

\* C24: a TXT record whose rdata is the strings s1..sn, each behind its
\* length, filling RDLENGTH, decodes to the list of s1..sn, every string
\* whole and in its place, and the record behind it is found; a TXT record
\* that was encoded decodes to the list it was encoded from.
C24_TxtStrings ==
    /\ \A c \in TxtCases : \A i \in DecodesOf(c) :
          /\ hist[i].kind = "some"
          /\ hist[i].message.answer = c.answer
    /\ \A i \in RoundTrips :
          hist[i].message \in TxtMessages
          => /\ hist[i + 1].kind = "some"
             /\ hist[i + 1].message.answer = hist[i].message.answer
             /\ hist[i + 1].message.additional = hist[i].message.additional

\* C25: every decode call returns: a name whose pointers form a cycle makes
\* decode return an error, and a TXT record whose strings end behind its
\* RDLENGTH does not keep the decoder in its loop.
C25_Terminates ==
    /\ \A i \in 1..Len(hist) : IsDecode(hist[i]) => hist[i].kind # "hang"
    /\ \A c \in CycleCases : \A i \in DecodesOf(c) : hist[i].kind = "err"

\* C26: after every decode call that returns a message or an error, in
\* datagram and in stream mode, the codec's offset is 0 and its pending
\* length is none, and the next decode call answers what a new codec of the
\* same mode answers on the buffer that is left.
C26_NoStateLeak ==
    [][(/\ Decode
        /\ Len(hist') = Len(hist) + 1
        /\ hist'[Len(hist')].kind \in {"some", "err"})
       => /\ codec'.offset = 0
          /\ codec'.len = <<>>
          /\ decode(codec', src') = decode(DnsMessageCodecNew(codec'.tcp), src')
      ]_vars

-----------------------------------------------------------------------------
(* The forwarders' claim on serving one request at a time.                 *)

\* The upstream connections the forwarder of client connection c holds.
OpenFor(conns, c) ==
    {i \in 1..Len(conns) : conns[i].client = c /\ conns[i].open}

\* C27: on each client connection at most one upstream connection is open; a
\* request is started only by an idle forwarder whose earlier requests were
\* all answered; the k-th message written to the client is the reply
\* prepared for the k-th request; a step of one connection leaves the other
\* connection's forwarder, replies and upstream connections as they were, and
\* a forwarder waiting for the upstream holds an upstream connection of its
\* own.
C27_TcpSerial ==
    [][\A c \in SerialConns :
        /\ Cardinality(OpenFor(upstream', c)) <= 1
        /\ tcp'[c].pc = "awaiting" => Cardinality(OpenFor(upstream', c)) = 1
        /\ tcp'[c].n # tcp[c].n
           => /\ tcp[c].pc = "idle"
              /\ tcp'[c].n = tcp[c].n + 1
              /\ Len(tcpOut[c]) = tcp[c].n
              /\ OpenFor(upstream, c) = {}
        /\ tcpOut'[c] # tcpOut[c]
           => /\ tcp[c].pc = "replying"
              /\ tcpOut'[c] = Append(tcpOut[c], tcp[c].response)
              /\ Len(tcpOut'[c]) = tcp[c].n
        /\ tcp'[c] # tcp[c]
           => \A d \in SerialConns \ {c} :
                 /\ tcp'[d] = tcp[d]
                 /\ tcpOut'[d] = tcpOut[d]
                 /\ OpenFor(upstream', d) = OpenFor(upstream, d)
                 /\ \A i \in 1..Len(upstream') :
                       i > Len(upstream) => upstream'[i].client = c
      ]_vars

\* Both forwarders wait for the upstream at once, each on its own upstream
\* connection, and the first has already answered a request.
C27_Witness ==
    /\ tcp["k1"].pc = "awaiting" /\ tcp["k2"].pc = "awaiting"
    /\ tcp["k1"].n = 2 /\ Len(tcpOut["k1"]) = 1
    /\ Cardinality(OpenFor(upstream, "k1")) = 1
    /\ Cardinality(OpenFor(upstream, "k2")) = 1
    /\ OpenFor(upstream, "k1") # OpenFor(upstream, "k2")

-----------------------------------------------------------------------------
(* The UDP engine's claim on the order of insert and send.                 *)

\* The datagrams for the upstream that wait in the sender queue.
WaitingUpstream(q) == {i \in 1..Len(q) : q[i].addr = DnsAddr}

-----------------------------------------------------------------------------
(* The engines' claim on refusal.                                          *)

\* The answer section carries a record of the hosts file whose address is
\* 0.0.0.0.
CarriesRefusal(answer) ==
    \E j \in 1..Len(answer) :
        /\ \E name \in DOMAIN LocalEntries :
              \E k \in 1..Len(LocalEntries[name]) : answer[j] = LocalEntries[name][k]
        /\ answer[j].rtype = TypeA
        /\ answer[j].data = DnsRRDataA(Unspecified)

\* C29: no datagram waiting to be sent to a client, and no message written on
\* a client's TCP connection, carries in its answers a record of the hosts
\* file whose address is 0.0.0.0.
C29_RefusalNotBypassed ==
    /\ \A i \in 1..Len(queue) :
          queue[i].addr \in Peers => ~CarriesRefusal(queue[i].message.answer)
    /\ \A c \in DOMAIN tcpOut : \A i \in 1..Len(tcpOut[c]) :
          ~CarriesRefusal(tcpOut[c][i].answer)

=============================================================================
